---- MODULE Spec2Model ----
(***************************************************************************)
(* Model of the puzzle asset optimization pipeline of tools/:              *)
(*   optimize_puzzle_assets.py             ("base"       variant)          *)
(*   optimize_puzzle_assets_fixed.py       ("fixed"      variant)          *)
(*   optimize_puzzle_assets_no_padding.py  ("no_padding" variant)          *)
(* and of the tools that read its output back:                             *)
(*   benchmark_memory_optimization.py, verify_asset_loading.py.            *)
(* An image is a record [width, height, px], px a function from the pixel  *)
(* coordinates <<x, y>> to a pixel [c, a] (colour, alpha).                 *)
(***************************************************************************)
EXTENDS Integers, Sequences, FiniteSets, TLC

VARIABLES
    variant,    \* which of the three scripts runs
    image,      \* the source piece image (the PNG opened by optimize_piece)
    padding,    \* the padding argument of the crop call
    pc,         \* position in the run
    result,     \* what optimize_piece / the called function returned
    extracted,  \* the box last handed to Image.crop (exclusive right/bottom)
    saved,      \* the image file written to <grid>_optimized/pieces
    metadata,   \* the piece's entry of optimization_metadata.json
    fs,         \* the files of one grid size: its source and its optimized output
    grid,       \* the run of optimize_grid_size: position, loop state, return value
    hist,       \* what earlier runs on the grid size read and wrote
    puzzle,     \* the run of optimize_puzzle over the requested grid sizes
    bench       \* the run of a tool that reads the optimized output back

vars == <<variant, image, padding, pc, result, extracted, saved, metadata,
          fs, grid, hist, puzzle, bench>>

(* The variables of a single piece's pipeline, and those of the grid runs *)
piecevars == <<image, padding, pc, result, extracted, saved, metadata>>
gridvars == <<fs, grid, hist, puzzle>>

----------------------------------------------------------------------------
(* Bounds of the model *)

MaxDim == 5
MaxPadding == 2

(* Program constants *)

PADDING == 2
BYTES_PER_PIXEL == 4

None == [kind |-> "None"]

Variants == {"base", "fixed", "no_padding"}

----------------------------------------------------------------------------
(* Images *)

Positions(w, h) == (0..(w - 1)) \X (0..(h - 1))

TransparentPixels == {[c |-> 0, a |-> 0], [c |-> 1, a |-> 0]}
PixelA == [c |-> 1, a |-> 255]
PixelB == [c |-> 2, a |-> 1]
ContentPixels == {PixelA, PixelB}

Min(a, b) == IF a <= b THEN a ELSE b
Max(a, b) == IF a >= b THEN a ELSE b

(* The family of source images on a background bg of transparent pixels:   *)
(* "none" has no content, "one" a single content pixel va at p1, "two" the *)
(* pixels va at p1 and vb at p2, and "rect" the rectangle spanned by p1    *)
(* and p2 painted with va, its corner p2 with vb.                          *)
InSpan(p, p1, p2) ==
    /\ Min(p1[1], p2[1]) <= p[1] /\ p[1] <= Max(p1[1], p2[1])
    /\ Min(p1[2], p2[2]) <= p[2] /\ p[2] <= Max(p1[2], p2[2])

MakeImage(w, h, shape, p1, p2, va, vb, bg) ==
    [width |-> w, height |-> h,
     px |-> [p \in Positions(w, h) |->
                CASE shape = "none" -> bg
                  [] shape = "one" -> IF p = p1 THEN va ELSE bg
                  [] shape = "two" ->
                        IF p = p1 THEN va ELSE IF p = p2 THEN vb ELSE bg
                  [] shape = "rect" ->
                        IF p = p2 THEN vb
                        ELSE IF InSpan(p, p1, p2) THEN va ELSE bg]]

(* PIL Image.crop(box): box = <<left, top, right, bottom>>, right and      *)
(* bottom exclusive; pixels of the box outside the source are transparent. *)
ImageCrop(img, box) ==
    [width |-> box[3] - box[1], height |-> box[4] - box[2],
     px |-> [p \in Positions(box[3] - box[1], box[4] - box[2]) |->
                IF <<box[1] + p[1], box[2] + p[2]>> \in DOMAIN img.px
                THEN img.px[<<box[1] + p[1], box[2] + p[2]>>]
                ELSE [c |-> 0, a |-> 0]]]

(* Image.size *)
ImageSize(img) == <<img.width, img.height>>

(* Image.tobytes(): the pixels in row-major order *)
tobytes(img) ==
    [i \in 1..(img.width * img.height) |->
        img.px[<<(i - 1) % img.width, (i - 1) \div img.width>>]]

(* Image.save(path, "PNG", optimize=True): PNG is lossless, the file holds *)
(* the image's pixels and dimensions.                                      *)
SavePng(img) == img

----------------------------------------------------------------------------
(* BoundingBox, one per script *)

BoundingBox(l, t, r, b) == [left |-> l, top |-> t, right |-> r, bottom |-> b]

width_base(b) == b.right - b.left
height_base(b) == b.bottom - b.top

width_fixed(b) == b.right - b.left
height_fixed(b) == b.bottom - b.top

width_no_padding(b) == b.right - b.left + 1
height_no_padding(b) == b.bottom - b.top + 1

BoxWidth(v, b) ==
    CASE v = "base" -> width_base(b)
      [] v = "fixed" -> width_fixed(b)
      [] v = "no_padding" -> width_no_padding(b)

BoxHeight(v, b) ==
    CASE v = "base" -> height_base(b)
      [] v = "fixed" -> height_fixed(b)
      [] v = "no_padding" -> height_no_padding(b)

to_dict(v, b) ==
    [left |-> b.left, top |-> b.top, right |-> b.right, bottom |-> b.bottom,
     width |-> BoxWidth(v, b), height |-> BoxHeight(v, b)]

----------------------------------------------------------------------------
(* find_content_bounds (the same code in the three scripts) *)

(* Variant of non_transparent that counts only fully opaque pixels as      *)
(* content (alpha_channel == 255).                                         *)
non_transparent_opaque_only(img) == [p \in DOMAIN img.px |-> img.px[p].a = 255]

(* Variant of non_transparent that looks at every channel of the pixel     *)
(* (img_array > 0 over the four channels) instead of the alpha channel.    *)
non_transparent_any_channel(img) ==
    [p \in DOMAIN img.px |-> img.px[p].a > 0 \/ img.px[p].c > 0]

(* alpha_channel > 0 *)
non_transparent(img) == [p \in DOMAIN img.px |-> img.px[p].a > 0]

(* np.any(a) *)
any(a) == \E p \in DOMAIN a : a[p]

(* np.any(a, axis=1): one boolean per row y of the h x w array a *)
any_axis1(a, w, h) ==
    [y \in 0..(h - 1) |-> \E x \in 0..(w - 1) : a[<<x, y>>]]

(* np.any(a, axis=0): one boolean per column x of the h x w array a *)
any_axis0(a, w, h) ==
    [x \in 0..(w - 1) |-> \E y \in 0..(h - 1) : a[<<x, y>>]]

(* np.argmax of a boolean vector of length n: the first index holding the *)
(* maximum, that is the first TRUE, or 0 when every entry is FALSE.        *)
argmax(v, n) ==
    IF \E i \in 0..(n - 1) : v[i]
    THEN CHOOSE i \in 0..(n - 1) : v[i] /\ \A j \in 0..(i - 1) : ~v[j]
    ELSE 0

(* v[::-1] *)
reversed(v, n) == [i \in 0..(n - 1) |-> v[n - 1 - i]]

(* Variant of find_content_bounds whose bottom misses the "- 1" of the      *)
(* reversed scan.                                                          *)
find_content_bounds_bottom_off(img) ==
    LET nt == non_transparent(img)
    IN  IF ~any(nt) THEN None
        ELSE LET rows == any_axis1(nt, img.width, img.height)
                 cols == any_axis0(nt, img.width, img.height)
                 top == argmax(rows, img.height)
                 bottom == img.height
                               - argmax(reversed(rows, img.height), img.height)
                 left == argmax(cols, img.width)
                 right == img.width - 1
                              - argmax(reversed(cols, img.width), img.width)
             IN  BoundingBox(left, top, right, bottom)

find_content_bounds(img) ==
    LET nt == non_transparent(img)
    IN  IF ~any(nt) THEN None
        ELSE LET rows == any_axis1(nt, img.width, img.height)
                 cols == any_axis0(nt, img.width, img.height)
                 top == argmax(rows, img.height)
                 bottom == img.height - 1
                               - argmax(reversed(rows, img.height), img.height)
                 left == argmax(cols, img.width)
                 right == img.width - 1
                              - argmax(reversed(cols, img.width), img.width)
             IN  BoundingBox(left, top, right, bottom)

----------------------------------------------------------------------------
(* The crop of each script *)

(* Variant of padded_bounds that clamps right/bottom to the image size     *)
(* instead of the last pixel index.                                        *)
padded_bounds_clamp_size(img, bounds, pad) ==
    [left |-> Max(0, bounds.left - pad),
     top |-> Max(0, bounds.top - pad),
     right |-> Min(img.width, bounds.right + pad),
     bottom |-> Min(img.height, bounds.bottom + pad)]

(* base: padded_left, padded_top, padded_right, padded_bottom *)
padded_bounds(img, bounds, pad) ==
    BoundingBox(Max(0, bounds.left - pad),
                Max(0, bounds.top - pad),
                Min(img.width - 1, bounds.right + pad),
                Min(img.height - 1, bounds.bottom + pad))

(* base: crop_box *)
crop_box_base(img, bounds, pad) ==
    LET p == padded_bounds(img, bounds, pad)
    IN  <<p.left, p.top, p.right + 1, p.bottom + 1>>

crop_image_to_bounds(img, bounds, pad) ==
    ImageCrop(img, crop_box_base(img, bounds, pad))

(* Variant of crop_box_fixed that clamps the inclusive right/bottom to the  *)
(* image size, without the "+ 1" that makes them exclusive.                *)
crop_box_fixed_inclusive_clamp(img, content_bounds, pad) ==
    <<Max(0, content_bounds.left - pad),
      Max(0, content_bounds.top - pad),
      Min(img.width, content_bounds.right + pad),
      Min(img.height, content_bounds.bottom + pad)>>

(* fixed: crop_box *)
crop_box_fixed(img, content_bounds, pad) ==
    <<Max(0, content_bounds.left - pad),
      Max(0, content_bounds.top - pad),
      Min(img.width, content_bounds.right + pad + 1),
      Min(img.height, content_bounds.bottom + pad + 1)>>

create_optimized_crop(img, content_bounds, pad) ==
    LET crop_box == crop_box_fixed(img, content_bounds, pad)
    IN  [cropped_image |-> ImageCrop(img, crop_box),
         original_content_bounds |-> content_bounds,
         actual_crop_bounds |->
             BoundingBox(crop_box[1], crop_box[2], crop_box[3] - 1, crop_box[4] - 1),
         canvas_position_left |-> crop_box[1],
         canvas_position_top |-> crop_box[2]]

(* Variant of crop_box_no_padding that hands the inclusive box to crop     *)
crop_box_no_padding_inclusive(bounds) ==
    <<bounds.left, bounds.top, bounds.right, bounds.bottom>>

(* no_padding: crop_box *)
crop_box_no_padding(bounds) ==
    <<bounds.left, bounds.top, bounds.right + 1, bounds.bottom + 1>>

(* no_padding: the crop, or ValueError when the size check fails *)
ValueError == [kind |-> "ValueError"]

(* lines 134-141: the size check on what image.crop returned *)
check_crop_size(cropped, bounds) ==
    LET expected_width == bounds.right - bounds.left + 1
        expected_height == bounds.bottom - bounds.top + 1
    IN  IF ImageSize(cropped) # <<expected_width, expected_height>>
        THEN ValueError
        ELSE cropped

crop_to_exact_content(img, bounds) ==
    check_crop_size(ImageCrop(img, crop_box_no_padding(bounds)), bounds)

(* Variant of calculate_content_hash that mixes the number of the run into *)
(* the hashed bytes.                                                       *)
calculate_content_hash_salted(img) ==
    [i \in 1..(img.width * img.height + 1) |->
        IF i <= img.width * img.height THEN tobytes(img)[i]
        ELSE [c |-> hist.runs, a |-> 0]]

(* hashlib.sha256(image.tobytes()).hexdigest()[:8]: a function of the byte *)
(* string alone, represented here by that byte string.                     *)
calculate_content_hash(img) == tobytes(img)

----------------------------------------------------------------------------
(* optimize_piece of each script: the returned PieceOptimizationResult, or *)
(* None for a fully transparent piece or a caught exception.               *)

original_bytes(img) == img.width * img.height * BYTES_PER_PIXEL

optimize_piece_base(img) ==
    LET bounds == find_content_bounds(img)
    IN  IF bounds = None THEN None
        ELSE LET cropped_image == crop_image_to_bounds(img, bounds, PADDING)
                 cropped_bytes ==
                     cropped_image.width * cropped_image.height * BYTES_PER_PIXEL
             IN  [kind |-> "result",
                  original_size |-> ImageSize(img),
                  bounds |-> bounds,
                  cropped_image |-> cropped_image,
                  content_hash |-> calculate_content_hash(cropped_image),
                  memory_saved_bytes |-> original_bytes(img) - cropped_bytes]

optimize_piece_fixed(img) ==
    LET content_bounds == find_content_bounds(img)
    IN  IF content_bounds = None THEN None
        ELSE LET cropped_info == create_optimized_crop(img, content_bounds, PADDING)
                 cropped_bytes ==
                     cropped_info.cropped_image.width
                         * cropped_info.cropped_image.height * BYTES_PER_PIXEL
             IN  [kind |-> "result",
                  original_size |-> ImageSize(img),
                  cropped_info |-> cropped_info,
                  content_hash |-> calculate_content_hash(cropped_info.cropped_image),
                  memory_saved_bytes |-> original_bytes(img) - cropped_bytes]

(* no_padding: the result built from what crop_to_exact_content returned *)
piece_result_no_padding(img, content_bounds, cropped_image) ==
    IF cropped_image = ValueError THEN None   \* except Exception
    ELSE [kind |-> "result",
          original_size |-> ImageSize(img),
          content_bounds |-> content_bounds,
          cropped_image |-> cropped_image,
          content_hash |-> calculate_content_hash(cropped_image),
          memory_saved_bytes |->
              original_bytes(img)
                  - cropped_image.width * cropped_image.height * BYTES_PER_PIXEL]

optimize_piece_no_padding(img) ==
    LET content_bounds == find_content_bounds(img)
    IN  IF content_bounds = None THEN None
        ELSE piece_result_no_padding(img, content_bounds,
                                     crop_to_exact_content(img, content_bounds))

(* The cropped image a result carries *)
CroppedOf(v, res) ==
    IF v = "fixed" THEN res.cropped_info.cropped_image ELSE res.cropped_image

----------------------------------------------------------------------------
(* _generate_optimization_metadata of each script: the bounds entry of one *)
(* piece.                                                                  *)

bounds_dict_base(res) ==
    [left |-> res.bounds.left,
     top |-> res.bounds.top,
     right |-> res.bounds.right,
     bottom |-> res.bounds.bottom,
     width |-> width_base(res.bounds),
     height |-> height_base(res.bounds)]

(* Variant of bounds_dict_fixed that takes width and height from the       *)
(* BoundingBox properties of actual_crop_bounds.                           *)
bounds_dict_fixed_from_box(res) ==
    LET b == res.cropped_info.actual_crop_bounds
    IN  [left |-> b.left, top |-> b.top, right |-> b.right, bottom |-> b.bottom,
         width |-> width_fixed(b), height |-> height_fixed(b)]

bounds_dict_fixed(res) ==
    LET cropped_info == res.cropped_info
        actual_width == cropped_info.cropped_image.width
        actual_height == cropped_info.cropped_image.height
        canvas_left == cropped_info.canvas_position_left
        canvas_top == cropped_info.canvas_position_top
    IN  [left |-> canvas_left,
         top |-> canvas_top,
         right |-> canvas_left + actual_width - 1,
         bottom |-> canvas_top + actual_height - 1,
         width |-> actual_width,
         height |-> actual_height]

(* no_padding raises ValueError when the bounds and the image disagree *)
bounds_dict_no_padding(res) ==
    LET content_bounds == res.content_bounds
        actual_width == res.cropped_image.width
        actual_height == res.cropped_image.height
        expected_width == width_no_padding(content_bounds)
        expected_height == height_no_padding(content_bounds)
    IN  IF actual_width # expected_width \/ actual_height # expected_height
        THEN ValueError
        ELSE [left |-> content_bounds.left,
              top |-> content_bounds.top,
              right |-> content_bounds.right,
              bottom |-> content_bounds.bottom,
              width |-> width_no_padding(content_bounds),
              height |-> height_no_padding(content_bounds)]

piece_metadata(bounds_dict, res) ==
    [kind |-> "piece",
     bounds |-> bounds_dict,
     content_hash |-> res.content_hash]

----------------------------------------------------------------------------
(* The run of optimize_grid_size on one piece file *)

(* No grid size is being processed: the state of the grid variables while  *)
(* a single piece, or a single function, is followed.                      *)
GridIdle ==
    /\ fs = None
    /\ grid = None
    /\ hist = None
    /\ puzzle = None
    /\ bench = None

SourceImage(img) ==
    \E w \in 1..MaxDim, h \in 1..MaxDim, bg \in TransparentPixels :
        \/ img = MakeImage(w, h, "none", <<0, 0>>, <<0, 0>>, bg, bg, bg)
        \/ \E p1 \in Positions(w, h), va \in ContentPixels :
               img = MakeImage(w, h, "one", p1, p1, va, va, bg)
        \/ \E p1 \in Positions(w, h), p2 \in Positions(w, h),
              shape \in {"two", "rect"} :
               /\ p1 # p2
               /\ img = MakeImage(w, h, shape, p1, p2, PixelA, PixelB, bg)

Init ==
    /\ variant \in Variants
    /\ SourceImage(image)
    /\ padding = IF variant = "no_padding" THEN 0 ELSE PADDING
    /\ pc = "start"
    /\ result = None
    /\ extracted = None
    /\ saved = None
    /\ metadata = None
    /\ GridIdle

(* result = self.optimize_piece(piece_file) *)
OptimizePiece(v, res, box) ==
    /\ pc = "start"
    /\ variant = v
    /\ result' = res
    /\ extracted' = IF res = None THEN None ELSE [kind |-> "box", box |-> box]
    /\ pc' = IF res = None THEN "skipped" ELSE "optimized"
    /\ UNCHANGED <<variant, image, padding, saved, metadata,
                 fs, grid, hist, puzzle, bench>>

OptimizePieceBase ==
    OptimizePiece("base", optimize_piece_base(image),
                  crop_box_base(image, find_content_bounds(image), PADDING))

OptimizePieceFixed ==
    OptimizePiece("fixed", optimize_piece_fixed(image),
                  crop_box_fixed(image, find_content_bounds(image), PADDING))

OptimizePieceNoPadding ==
    OptimizePiece("no_padding", optimize_piece_no_padding(image),
                  crop_box_no_padding(find_content_bounds(image)))

(* if result: result.cropped_image.save(output_path, "PNG", optimize=True) *)
SavePiece ==
    /\ pc = "optimized"
    /\ saved' = SavePng(CroppedOf(variant, result))
    /\ pc' = "saved"
    /\ UNCHANGED <<variant, image, padding, result, extracted, metadata,
                 fs, grid, hist, puzzle, bench>>

(* if not results: return False *)
NoResults ==
    /\ pc = "skipped"
    /\ pc' = "failed"
    /\ UNCHANGED <<variant, image, padding, result, extracted, saved, metadata,
                 fs, grid, hist, puzzle, bench>>

(* metadata = self._generate_optimization_metadata(...); json.dump; return True *)
GenerateMetadata(v, bounds_dict) ==
    /\ pc = "saved"
    /\ variant = v
    /\ IF bounds_dict = ValueError
       THEN pc' = "raised" /\ metadata' = None
       ELSE pc' = "done" /\ metadata' = piece_metadata(bounds_dict, result)
    /\ UNCHANGED <<variant, image, padding, result, extracted, saved,
                 fs, grid, hist, puzzle, bench>>

GenerateMetadataBase == GenerateMetadata("base", bounds_dict_base(result))
GenerateMetadataFixed == GenerateMetadata("fixed", bounds_dict_fixed(result))
GenerateMetadataNoPadding ==
    GenerateMetadata("no_padding", bounds_dict_no_padding(result))

Next ==
    \/ OptimizePieceBase
    \/ OptimizePieceFixed
    \/ OptimizePieceNoPadding
    \/ SavePiece
    \/ NoResults
    \/ GenerateMetadataBase
    \/ GenerateMetadataFixed
    \/ GenerateMetadataNoPadding

Spec == Init /\ [][Next]_vars

----------------------------------------------------------------------------
(* Direct calls of the functions, as the tests make them: first            *)
(* find_content_bounds(image), then the crop of the script with the        *)
(* returned box and a padding argument.                                    *)

DirectInit ==
    /\ variant \in Variants
    /\ SourceImage(image)
    /\ padding = 0
    /\ pc = "call"
    /\ result = None
    /\ extracted = None
    /\ saved = None
    /\ metadata = None
    /\ GridIdle

CallFindContentBounds ==
    /\ pc = "call"
    /\ result' = find_content_bounds(image)
    /\ pc' = "bounds"
    /\ UNCHANGED <<variant, image, padding, extracted, saved, metadata,
                 fs, grid, hist, puzzle, bench>>

CallCropImageToBounds ==
    /\ pc = "bounds"
    /\ variant = "base"
    /\ result # None
    /\ \E pad \in 0..MaxPadding :
        /\ padding' = pad
        /\ extracted' = [kind |-> "box", box |-> crop_box_base(image, result, pad)]
        /\ result' = [kind |-> "crop", bounds |-> result,
                      cropped_image |-> crop_image_to_bounds(image, result, pad)]
    /\ pc' = "cropped"
    /\ UNCHANGED <<variant, image, saved, metadata,
                 fs, grid, hist, puzzle, bench>>

CallCreateOptimizedCrop ==
    /\ pc = "bounds"
    /\ variant = "fixed"
    /\ result # None
    /\ \E pad \in 0..MaxPadding :
        /\ padding' = pad
        /\ extracted' = [kind |-> "box", box |-> crop_box_fixed(image, result, pad)]
        /\ result' = [kind |-> "crop", bounds |-> result,
                      cropped_info |-> create_optimized_crop(image, result, pad)]
    /\ pc' = "cropped"
    /\ UNCHANGED <<variant, image, saved, metadata,
                 fs, grid, hist, puzzle, bench>>

CallCropToExactContent ==
    /\ pc = "bounds"
    /\ variant = "no_padding"
    /\ result # None
    /\ LET cropped == crop_to_exact_content(image, result)
       IN  /\ extracted' = [kind |-> "box", box |-> crop_box_no_padding(result)]
           /\ IF cropped = ValueError
              THEN result' = ValueError /\ pc' = "raised"
              ELSE /\ result' = [kind |-> "crop", bounds |-> result,
                                 cropped_image |-> cropped]
                   /\ pc' = "cropped"
    /\ UNCHANGED <<variant, image, padding, saved, metadata,
                 fs, grid, hist, puzzle, bench>>

DirectNext ==
    \/ CallFindContentBounds
    \/ CallCropImageToBounds
    \/ CallCreateOptimizedCrop
    \/ CallCropToExactContent

DirectSpec == DirectInit /\ [][DirectNext]_vars

----------------------------------------------------------------------------
(* The files of one grid size.  The piece files <id>.png of the pieces     *)
(* directory are a function from piece ids to files; a file is a PNG image *)
(* or a file Image.open cannot read.  "miscrop" marks a piece for which    *)
(* image.crop returns an image of another size than the box: the outcome   *)
(* the no_padding script tests for after its crop (lines 138-139).         *)

MaxPieces == 2

ImageA == MakeImage(5, 4, "rect", <<1, 1>>, <<3, 2>>, PixelA, PixelB, [c |-> 0, a |-> 0])
ImageB == MakeImage(4, 4, "two", <<0, 1>>, <<2, 3>>, PixelA, PixelB, [c |-> 1, a |-> 0])
ImageT == MakeImage(3, 2, "none", <<0, 0>>, <<0, 0>>, PixelA, PixelA, [c |-> 1, a |-> 0])

PngFile(img) == [kind |-> "png", image |-> img, miscrop |-> FALSE]
CorruptFile == [kind |-> "corrupt", image |-> None, miscrop |-> FALSE]
MiscroppedFile == [kind |-> "png", image |-> ImageA, miscrop |-> TRUE]

PieceFiles(v) ==
    {PngFile(ImageA), PngFile(ImageB), PngFile(ImageT), CorruptFile}
    \cup (IF v = "no_padding" THEN {MiscroppedFile} ELSE {})

PieceIds == 1..MaxPieces

(* The possible contents of a pieces directory before the first run: the   *)
(* pieces 1..n of a grid of n pieces.                                      *)
PieceDirs(v) == UNION {[1..n -> PieceFiles(v)] : n \in 0..MaxPieces}

(* Variant of sorted that loses the last of several files *)
sorted_without_last(ids) ==
    LET kept == IF Cardinality(ids) > 1
                THEN ids \ {CHOOSE m \in ids : \A i \in ids : i <= m}
                ELSE ids
    IN  CHOOSE seq \in [1..Cardinality(kept) -> kept] :
            \A i, j \in 1..Cardinality(kept) : i < j => seq[i] < seq[j]

(* sorted(piece_files): the ids in increasing order *)
sorted(ids) ==
    CHOOSE seq \in [1..Cardinality(ids) -> ids] :
        \A i, j \in 1..Cardinality(ids) : i < j => seq[i] < seq[j]

(* image.crop returning an image one column narrower than the box *)
Miscrop(img, box) == ImageCrop(img, <<box[1], box[2], box[3] - 1, box[4]>>)

(* a / b, and (a / b) * 100, as exact fractions *)
ZeroDivisionError == [kind |-> "ZeroDivisionError"]

percent(a, b) ==
    IF b = 0 THEN ZeroDivisionError ELSE [num |-> a * 100, den |-> b]

(* optimize_piece(piece_file) of script v: Image.open raises on a corrupt  *)
(* file and the division of line 178 raises on a zero original size; every *)
(* exception is caught and None returned.                                  *)
optimize_piece_miscropped(img) ==
    LET content_bounds == find_content_bounds(img)
    IN  IF content_bounds = None THEN None
        ELSE piece_result_no_padding(img, content_bounds,
                 check_crop_size(Miscrop(img, crop_box_no_padding(content_bounds)),
                                 content_bounds))

optimize_piece_cropped(v, file) ==
    IF file.kind = "corrupt" THEN None
    ELSE IF file.miscrop THEN optimize_piece_miscropped(file.image)
    ELSE CASE v = "base" -> optimize_piece_base(file.image)
           [] v = "fixed" -> optimize_piece_fixed(file.image)
           [] v = "no_padding" -> optimize_piece_no_padding(file.image)

reduction_percent(file, res) ==
    IF res = None THEN None
    ELSE percent(res.memory_saved_bytes, original_bytes(file.image))

optimize_piece(v, file) ==
    LET res == optimize_piece_cropped(v, file)
    IN  IF reduction_percent(file, res) = ZeroDivisionError THEN None ELSE res

----------------------------------------------------------------------------
(* layout.ipuz.json of the source grid size: missing, present but not      *)
(* readable, or readable with one of the contents below (what json.load    *)
(* makes of it).                                                           *)

LayoutStates == {"missing", "unreadable", "readable"}

Absent == [kind |-> "absent"]

CanvasEntries ==
    {Absent,                              \* no "canvas" key
     None,                                \* "canvas": null
     [height |-> 300],                    \* lacks width
     [width |-> 400],                     \* lacks height
     [width |-> 400, height |-> 300]}

LayoutContents ==
    {[kind |-> "not_json", canvas |-> Absent],   \* json.load raises
     [kind |-> "list", canvas |-> Absent]}       \* top level is not an object
    \cup {[kind |-> "object", canvas |-> c] : c \in CanvasEntries}

(* What open() and json.load give for the layout file in state st *)
LayoutRead(st) ==
    IF st = "readable" THEN LayoutContents
    ELSE {[kind |-> "missing", canvas |-> Absent]}   \* open raises

DefaultCanvas == [width |-> 2048, height |-> 2048]

(* _load_canvas_info: every exception gives the default, and so does a     *)
(* missing "canvas" key; any other value of the key is returned as it is.  *)
load_canvas_info(layout) ==
    IF layout.kind # "object" THEN DefaultCanvas        \* except Exception
    ELSE IF layout.canvas = Absent THEN DefaultCanvas   \* .get default
    ELSE layout.canvas

TypeError == [kind |-> "TypeError"]
KeyError == [kind |-> "KeyError"]
Errors == {TypeError, KeyError, ValueError, ZeroDivisionError}

(* {"width": int(canvas_info['width']), "height": int(canvas_info['height'])} *)
canvas_size(canvas_info) ==
    IF canvas_info = None THEN TypeError
    ELSE IF "width" \notin DOMAIN canvas_info THEN KeyError
    ELSE IF "height" \notin DOMAIN canvas_info THEN KeyError
    ELSE [width |-> canvas_info.width, height |-> canvas_info.height]

(* the bounds entry of script v for one result *)
bounds_dict(v, res) ==
    CASE v = "base" -> bounds_dict_base(res)
      [] v = "fixed" -> bounds_dict_fixed(res)
      [] v = "no_padding" -> bounds_dict_no_padding(res)

pieces_metadata_entry(v, r, cs) ==
    [bounds |-> bounds_dict(v, r.res),
     canvas_size |-> cs,
     content_hash |-> r.res.content_hash,
     cropped_filename |-> r.piece_id]

(* float((total_saved_bytes / total_original_bytes) * 100)                 *)
(*     if total_original_bytes > 0 else 0.0                                *)
memory_reduction_percent(total_saved_bytes, total_original_bytes) ==
    IF total_original_bytes > 0
    THEN percent(total_saved_bytes, total_original_bytes)
    ELSE [num |-> 0, den |-> 1]

(* Variant of statistics that reports the saved bytes as the optimized     *)
(* total.                                                                  *)
statistics_saved_as_optimized(results, total_original_bytes, total_saved_bytes) ==
    [memory_reduction_percent |->
         memory_reduction_percent(total_saved_bytes, total_original_bytes),
     total_pieces |-> Len(results),
     original_total_bytes |-> total_original_bytes,
     optimized_total_bytes |-> total_saved_bytes,
     bytes_saved |-> total_saved_bytes]

(* lines 312-319: the "statistics" entry *)
statistics(results, total_original_bytes, total_saved_bytes) ==
    [memory_reduction_percent |->
         memory_reduction_percent(total_saved_bytes, total_original_bytes),
     total_pieces |-> Len(results),
     original_total_bytes |-> total_original_bytes,
     optimized_total_bytes |-> total_original_bytes - total_saved_bytes,
     bytes_saved |-> total_saved_bytes]

(* _generate_optimization_metadata: the document, or the exception the     *)
(* loop over the results raises (the size check of the no_padding script   *)
(* comes before the canvas lookup of the same result).                     *)
generate_optimization_metadata(v, results, canvas_info, total_original_bytes, total_saved_bytes) ==
    LET cs == canvas_size(canvas_info)
        mismatch(i) == bounds_dict(v, results[i].res) = ValueError
    IN  IF Len(results) > 0 /\ mismatch(1) THEN ValueError
        ELSE IF cs \in Errors THEN cs
        ELSE IF \E i \in 1..Len(results) : mismatch(i) THEN ValueError
        ELSE [version |-> "1.0",
              canvas_size |-> cs,
              pieces |->
                  [id \in {results[i].piece_id : i \in 1..Len(results)} |->
                      pieces_metadata_entry(v,
                          results[CHOOSE i \in 1..Len(results) :
                                      /\ results[i].piece_id = id
                                      /\ \A j \in (i + 1)..Len(results) :
                                             results[j].piece_id # id],
                          cs)],
              statistics |->
                  statistics(results, total_original_bytes, total_saved_bytes)]

----------------------------------------------------------------------------
(* Runs of optimize_grid_size on one grid size.                            *)
(* fs:   pieces_exists, files, layout        the source <grid>/            *)
(*       out_dir, out_pieces_dir, out_layout, out_pieces, out_metadata     *)
(*                                           the output <grid>_optimized/  *)
(* grid: pc, the locals of the run, its return value or exception, the     *)
(*       layout content it read, whether it divided by zero and how often  *)
(*       it wrote optimization_metadata.json.                              *)
(* hist: the number of runs, whether the source changed since the last     *)
(*       call (edited) or ever (changed), and the source files from which  *)
(*       the current and the previous metadata document were generated.    *)

MaxRuns == 2

OSError == [kind |-> "OSError"]

SourceDirs(v) ==
    {[pieces_exists |-> FALSE, files |-> << >>, layout |-> l,
      out_dir |-> FALSE, out_pieces_dir |-> FALSE, out_layout |-> FALSE,
      out_pieces |-> << >>, out_metadata |-> None] : l \in LayoutStates}
    \cup {[pieces_exists |-> TRUE, files |-> f, layout |-> l,
           out_dir |-> FALSE, out_pieces_dir |-> FALSE, out_layout |-> FALSE,
           out_pieces |-> << >>, out_metadata |-> None]
          : f \in PieceDirs(v), l \in LayoutStates}

GridFresh ==
    [pc |-> "idle", piece_files |-> << >>, idx |-> 1, results |-> << >>,
     total_original_bytes |-> 0, total_saved_bytes |-> 0,
     ret |-> "none", raised |-> None, layout_read |-> None,
     div0 |-> FALSE, writes |-> 0]

HistFresh ==
    [runs |-> 0, edited |-> FALSE, changed |-> FALSE,
     doc_files |-> None, prev_doc |-> None, prev_files |-> None]

PieceIdle ==
    /\ image = None
    /\ padding = 0
    /\ pc = "idle"
    /\ result = None
    /\ extracted = None
    /\ saved = None
    /\ metadata = None

GridInit ==
    /\ variant \in Variants
    /\ PieceIdle
    /\ fs \in SourceDirs(variant)
    /\ grid = GridFresh
    /\ hist = HistFresh
    /\ puzzle = None
    /\ bench = None

(* optimizer.optimize_grid_size(puzzle_id, grid_size), called directly *)
CallOptimizeGridSize ==
    /\ puzzle = None
    /\ grid.pc \in {"idle", "returned", "raised"}
    /\ hist.runs < MaxRuns
    /\ grid' = [GridFresh EXCEPT !.pc = "entered"]
    /\ hist' = [hist EXCEPT !.runs = @ + 1, !.edited = FALSE]
    /\ UNCHANGED <<variant, fs, puzzle>>
    /\ UNCHANGED piecevars
    /\ UNCHANGED bench

(* lines 208-235: the pieces directory check, the two mkdir, the copy of   *)
(* layout.ipuz.json (shutil.copy2 raises on a file it cannot read) and the *)
(* glob of the piece files.                                                *)
GridEnter ==
    /\ grid.pc = "entered"
    /\ IF ~fs.pieces_exists
       THEN /\ grid' = [grid EXCEPT !.pc = "returned", !.ret = "False"]
            /\ UNCHANGED fs
       ELSE IF fs.layout = "unreadable"
       THEN /\ fs' = [fs EXCEPT !.out_dir = TRUE, !.out_pieces_dir = TRUE]
            /\ grid' = [grid EXCEPT !.pc = "raised", !.raised = OSError]
       ELSE /\ fs' = [fs EXCEPT !.out_dir = TRUE, !.out_pieces_dir = TRUE,
                                !.out_layout = @ \/ fs.layout = "readable"]
            /\ grid' = [grid EXCEPT !.pc = "loop",
                                    !.piece_files = sorted(DOMAIN fs.files)]
    /\ UNCHANGED <<variant, hist, puzzle>>
    /\ UNCHANGED piecevars
    /\ UNCHANGED bench

(* lines 237-246: one iteration of the loop over the sorted piece files *)
GridPiece ==
    /\ grid.pc = "loop"
    /\ grid.idx <= Len(grid.piece_files)
    /\ LET piece_id == grid.piece_files[grid.idx]
           file == fs.files[piece_id]
           res == optimize_piece(variant, file)
           raised0 == reduction_percent(file, optimize_piece_cropped(variant, file))
                          = ZeroDivisionError
       IN  IF res # None
           THEN /\ fs' = [fs EXCEPT !.out_pieces =
                             [i \in DOMAIN fs.out_pieces \cup {piece_id} |->
                                 IF i = piece_id
                                 THEN SavePng(CroppedOf(variant, res))
                                 ELSE fs.out_pieces[i]]]
                /\ grid' = [grid EXCEPT
                       !.idx = @ + 1,
                       !.results = Append(@, [piece_id |-> piece_id, res |-> res]),
                       !.total_original_bytes =
                           @ + res.original_size[1] * res.original_size[2]
                                   * BYTES_PER_PIXEL,
                       !.total_saved_bytes = @ + res.memory_saved_bytes]
           ELSE /\ grid' = [grid EXCEPT !.idx = @ + 1,
                                        !.div0 = @ \/ raised0]
                /\ UNCHANGED fs
    /\ UNCHANGED <<variant, hist, puzzle>>
    /\ UNCHANGED piecevars
    /\ UNCHANGED bench

(* Variant of no_results that lets a run without results go on *)
no_results_ignored(results) == FALSE

(* not results *)
no_results(results) == results = << >>

(* lines 248-250 *)
GridNoResults ==
    /\ grid.pc = "loop"
    /\ grid.idx > Len(grid.piece_files)
    /\ no_results(grid.results)
    /\ grid' = [grid EXCEPT !.pc = "returned", !.ret = "False"]
    /\ UNCHANGED <<variant, fs, hist, puzzle>>
    /\ UNCHANGED piecevars
    /\ UNCHANGED bench

(* lines 252-267: _load_canvas_info, _generate_optimization_metadata, the  *)
(* write of optimization_metadata.json, the division of line 261 and       *)
(* return True.  An exception of the generation leaves before the write.   *)
GridFinish ==
    /\ grid.pc = "loop"
    /\ grid.idx > Len(grid.piece_files)
    /\ ~no_results(grid.results)
    /\ \E layout \in LayoutRead(fs.layout) :
        LET canvas_info == load_canvas_info(layout)
            doc == generate_optimization_metadata(variant, grid.results,
                       canvas_info, grid.total_original_bytes,
                       grid.total_saved_bytes)
            total_reduction ==
                percent(grid.total_saved_bytes, grid.total_original_bytes)
        IN  IF doc \in Errors
            THEN /\ grid' = [grid EXCEPT !.pc = "raised", !.raised = doc,
                                         !.layout_read = layout]
                 /\ UNCHANGED <<fs, hist>>
            ELSE /\ fs' = [fs EXCEPT !.out_metadata = doc]
                 /\ hist' = [hist EXCEPT !.prev_doc = fs.out_metadata,
                                         !.prev_files = hist.doc_files,
                                         !.doc_files = fs.files]
                 /\ grid' =
                      IF total_reduction = ZeroDivisionError
                      THEN [grid EXCEPT !.pc = "raised",
                                        !.raised = ZeroDivisionError,
                                        !.layout_read = layout,
                                        !.writes = @ + 1,
                                        !.div0 = TRUE]
                      ELSE [grid EXCEPT !.pc = "returned", !.ret = "True",
                                        !.layout_read = layout,
                                        !.writes = @ + 1]
    /\ UNCHANGED <<variant, puzzle>>
    /\ UNCHANGED piecevars
    /\ UNCHANGED bench

(* Between two runs, when the locals of the last run are gone, the source  *)
(* pieces change, once: a piece file is removed, becomes fully             *)
(* transparent, or is added.                                               *)
ModifySource ==
    /\ puzzle = None
    /\ grid.pc \in {"returned", "raised"}
    /\ hist.runs < MaxRuns
    /\ ~hist.changed
    /\ fs.pieces_exists
    /\ \/ \E id \in DOMAIN fs.files :
            fs' = [fs EXCEPT !.files = [i \in DOMAIN fs.files \ {id} |-> fs.files[i]]]
       \/ \E id \in DOMAIN fs.files :
            /\ fs.files[id] # PngFile(ImageT)
            /\ fs' = [fs EXCEPT !.files[id] = PngFile(ImageT)]
       \/ \E id \in PieceIds \ DOMAIN fs.files :
            fs' = [fs EXCEPT !.files =
                      [i \in DOMAIN fs.files \cup {id} |->
                          IF i = id THEN PngFile(ImageB) ELSE fs.files[i]]]
    /\ hist' = [hist EXCEPT !.edited = TRUE, !.changed = TRUE]
    /\ grid' = GridFresh
    /\ UNCHANGED <<variant, puzzle>>
    /\ UNCHANGED piecevars
    /\ UNCHANGED bench

GridNext ==
    \/ CallOptimizeGridSize
    \/ GridEnter
    \/ GridPiece
    \/ GridNoResults
    \/ GridFinish
    \/ ModifySource

GridSpec == GridInit /\ [][GridNext]_vars

----------------------------------------------------------------------------
(* Runs of optimize_puzzle(puzzle_id, grid_sizes).  The name of an entry   *)
(* of the layouts directory is a record [base, opt]: the grid size "base"  *)
(* followed by opt times "_optimized".  grid_sizes is the list passed      *)
(* (explicit, arg), or None, in which case the list is what the filter     *)
(* keeps of iterdir (entries), in the order iterdir gives.  The files of a *)
(* grid size are looked at when optimize_grid_size is called for it.       *)
(* PuzzleSpec follows one call, with a list of grid sizes or for a puzzle  *)
(* without layouts directory, and the exit of main after it; DiscoverySpec *)
(* follows repeated runs of optimize_puzzle_assets.py without              *)
(* --grid-sizes.                                                           *)
(* puzzle: pc, layouts_exists, entries (the directories and files of the   *)
(*         layouts directory), explicit, arg, runs (calls so far), first   *)
(*         (the grid sizes the first call worked on), grid_sizes, gi,      *)
(*         success_count, out_existed (the output directory of the grid    *)
(*         size being processed existed at the call), attempted (grid size *)
(*         and outcome of every call of optimize_grid_size of this run,    *)
(*         whether its pieces directory existed and whether the call       *)
(*         created the output directory), ret, exit_code.  Only the files  *)
(*         of the grid size being processed are followed.                  *)

MaxGrids == 2

GridName(n) == [base |-> n, opt |-> 0]

(* f"{grid_size}_optimized" *)
optimized_name(name) == [name EXCEPT !.opt = @ + 1]

(* Variant of endswith_optimized that finds the suffix nowhere *)
endswith_optimized_never(name) == FALSE

(* d.name.endswith('_optimized') *)
endswith_optimized(name) == name.opt > 0

Dir(name) == [name |-> name, is_dir |-> TRUE]

(* a file that is not a directory, and the output of an earlier            *)
(* optimization of grid size 1                                             *)
StrayFile == [name |-> GridName(0), is_dir |-> FALSE]
ExtraEntries == {StrayFile, Dir(optimized_name(GridName(1)))}

(* The grid sizes of a list *)
Names(grid_sizes) == {grid_sizes[i] : i \in 1..Len(grid_sizes)}

(* Lists of distinct grid sizes: the n-th entry is called n *)
GridSizeLists == {[i \in 1..n |-> GridName(i)] : n \in 0..MaxGrids}

(* The orders in which iterdir may give the names of a set *)
Orders(names) ==
    {seq \in [1..Cardinality(names) -> names] :
        \A i, j \in 1..Cardinality(names) : i # j => seq[i] # seq[j]}

(* [d.name for d in puzzle_path.iterdir()                                  *)
(*     if d.is_dir() and not d.name.endswith('_optimized')]                *)
discovered(entries) ==
    {e.name : e \in {d \in entries : d.is_dir /\ ~endswith_optimized(d.name)}}

PuzzleInit ==
    /\ variant \in Variants
    /\ PieceIdle
    /\ fs = None
    /\ grid = GridFresh
    /\ hist = HistFresh
    /\ bench = None
    /\ \E e \in BOOLEAN, lists \in GridSizeLists, explicit \in BOOLEAN,
          extras \in SUBSET ExtraEntries :
          /\ extras = {}
          /\ ~explicit => ~e
          /\ puzzle = [pc |-> "call",
                       layouts_exists |-> e,
                       entries |-> IF e
                                   THEN {Dir(lists[i]) : i \in 1..Len(lists)}
                                            \cup extras
                                   ELSE {},
                       explicit |-> explicit,
                       arg |-> IF explicit THEN lists ELSE << >>,
                       runs |-> 0, first |-> {},
                       grid_sizes |-> << >>, gi |-> 1, success_count |-> 0,
                       out_existed |-> FALSE,
                       attempted |-> << >>, ret |-> "none", exit_code |-> 0]

(* Variant of puzzle_path_exists that skips the check *)
puzzle_path_exists_unchecked(p) == TRUE

(* puzzle_path.exists() *)
puzzle_path_exists(p) == p.layouts_exists

(* lines 333-343: the check of the layouts directory and the discovery of  *)
(* the grid sizes when none were given.                                    *)
EnterOptimizePuzzle ==
    /\ IF ~puzzle_path_exists(puzzle)
       THEN puzzle' = [puzzle EXCEPT !.pc = "returned", !.ret = "False",
                                     !.runs = @ + 1,
                                     !.grid_sizes = << >>, !.gi = 1,
                                     !.success_count = 0,
                                     !.attempted = << >>]
       ELSE \E grid_sizes \in IF puzzle.explicit THEN {puzzle.arg}
                              ELSE Orders(discovered(puzzle.entries)) :
                puzzle' = [puzzle EXCEPT
                    !.pc = "loop",
                    !.ret = "none",
                    !.runs = @ + 1,
                    !.first = IF puzzle.runs = 0
                              THEN {grid_sizes[i] : i \in 1..Len(grid_sizes)}
                              ELSE @,
                    !.grid_sizes = grid_sizes,
                    !.gi = 1,
                    !.success_count = 0,
                    !.attempted = << >>]
    /\ UNCHANGED <<variant, fs, grid, hist>>
    /\ UNCHANGED piecevars
    /\ UNCHANGED bench

(* optimizer.optimize_puzzle(puzzle_id, grid_sizes) is called *)
CallOptimizePuzzle ==
    /\ puzzle # None
    /\ puzzle.pc = "call"
    /\ EnterOptimizePuzzle

(* lines 347-349: the loop calls optimize_grid_size for the next grid      *)
(* size, whose files are one of sources.                                   *)
CallGrid(sources) ==
    /\ puzzle # None
    /\ puzzle.pc = "loop"
    /\ puzzle.gi <= Len(puzzle.grid_sizes)
    /\ LET existed == Dir(optimized_name(puzzle.grid_sizes[puzzle.gi]))
                          \in puzzle.entries
       IN  /\ \E source \in sources :
                  fs' = [source EXCEPT !.out_dir = existed,
                                       !.out_pieces_dir = existed]
           /\ puzzle' = [puzzle EXCEPT !.pc = "in_grid",
                                       !.out_existed = existed]
    /\ grid' = [GridFresh EXCEPT !.pc = "entered"]
    /\ hist' = [HistFresh EXCEPT !.runs = 1]
    /\ UNCHANGED variant
    /\ UNCHANGED piecevars
    /\ UNCHANGED bench

PuzzleCallGrid == CallGrid(SourceDirs(variant))

(* The layouts directory after optimize_grid_size(grid_size): the output   *)
(* directory of line 215 is there when the call made or found it.          *)
entries_after(p, out_dir) ==
    IF out_dir
    THEN p.entries \cup {Dir(optimized_name(p.grid_sizes[p.gi]))}
    ELSE p.entries

(* lines 349-352: optimize_grid_size returned *)
PuzzleGridReturned ==
    /\ puzzle # None
    /\ puzzle.pc = "in_grid"
    /\ grid.pc = "returned"
    /\ puzzle' = [puzzle EXCEPT
           !.pc = "loop",
           !.gi = @ + 1,
           !.success_count = IF grid.ret = "True" THEN @ + 1 ELSE @,
           !.entries = entries_after(puzzle, fs.out_dir),
           !.out_existed = FALSE,
           !.attempted = Append(@, [grid_size |-> puzzle.grid_sizes[puzzle.gi],
                                    outcome |-> grid.ret,
                                    pieces_exists |-> fs.pieces_exists,
                                    wrote |-> fs.out_dir /\ ~puzzle.out_existed])]
    /\ fs' = None
    /\ grid' = GridFresh
    /\ hist' = HistFresh
    /\ UNCHANGED variant
    /\ UNCHANGED piecevars
    /\ UNCHANGED bench

(* an exception of optimize_grid_size leaves optimize_puzzle: nothing in   *)
(* lines 347-352 catches it.                                               *)
PuzzleGridRaised ==
    /\ puzzle # None
    /\ puzzle.pc = "in_grid"
    /\ grid.pc = "raised"
    /\ puzzle' = [puzzle EXCEPT
           !.pc = "raised",
           !.entries = entries_after(puzzle, fs.out_dir),
           !.out_existed = FALSE,
           !.attempted = Append(@, [grid_size |-> puzzle.grid_sizes[puzzle.gi],
                                    outcome |-> "raised",
                                    pieces_exists |-> fs.pieces_exists,
                                    wrote |-> fs.out_dir /\ ~puzzle.out_existed])]
    /\ fs' = None
    /\ grid' = GridFresh
    /\ hist' = HistFresh
    /\ UNCHANGED variant
    /\ UNCHANGED piecevars
    /\ UNCHANGED bench

(* lines 354-355 *)
PuzzleReturn ==
    /\ puzzle # None
    /\ puzzle.pc = "loop"
    /\ puzzle.gi > Len(puzzle.grid_sizes)
    /\ puzzle' = [puzzle EXCEPT
           !.pc = "returned",
           !.ret = IF puzzle.success_count = Len(puzzle.grid_sizes)
                   THEN "True" ELSE "False"]
    /\ UNCHANGED <<variant, fs, grid, hist>>
    /\ UNCHANGED piecevars
    /\ UNCHANGED bench

(* main of optimize_puzzle_assets.py, lines 444-455: the memory analysis   *)
(* is shown and the process exits with 0 when optimize_puzzle returned     *)
(* True and with 1 otherwise; an exception that left optimize_puzzle ends  *)
(* the process with exit code 1.  exit_code is meaningful once pc is       *)
(* "exited".                                                               *)
OptimizerMain ==
    /\ puzzle # None
    /\ puzzle.pc \in {"returned", "raised"}
    /\ puzzle' = [puzzle EXCEPT
           !.pc = "exited",
           !.exit_code = IF puzzle.pc = "returned" /\ puzzle.ret = "True"
                         THEN 0 ELSE 1]
    /\ UNCHANGED <<variant, fs, grid, hist>>
    /\ UNCHANGED piecevars
    /\ UNCHANGED bench

PuzzleNext ==
    \/ CallOptimizePuzzle
    \/ PuzzleCallGrid
    \/ GridEnter
    \/ GridPiece
    \/ GridNoResults
    \/ GridFinish
    \/ PuzzleGridReturned
    \/ PuzzleGridRaised
    \/ PuzzleReturn
    \/ OptimizerMain

PuzzleSpec == PuzzleInit /\ [][PuzzleNext]_vars

----------------------------------------------------------------------------
(* Repeated runs of optimize_puzzle_assets.py <puzzle_id> without          *)
(* --grid-sizes on a layouts directory that holds the directories of some  *)
(* grid sizes and possibly a file and the output of an earlier run.  The   *)
(* pieces directory of a grid size is missing, or holds no piece, a piece  *)
(* with content or a file that is no image.                                *)

DiscoveryFiles == {<< >>, <<PngFile(ImageA)>>, <<CorruptFile>>}

DiscoverySources ==
    {s \in SourceDirs("base") :
        /\ s.files \in DiscoveryFiles
        /\ s.layout \in {"missing", "readable"}}

DiscoveryInit ==
    /\ variant = "base"
    /\ PieceIdle
    /\ fs = None
    /\ grid = GridFresh
    /\ hist = HistFresh
    /\ bench = None
    /\ \E lists \in GridSizeLists, extras \in SUBSET ExtraEntries :
          puzzle = [pc |-> "call",
                    layouts_exists |-> TRUE,
                    entries |-> {Dir(lists[i]) : i \in 1..Len(lists)} \cup extras,
                    explicit |-> FALSE,
                    arg |-> << >>,
                    runs |-> 0, first |-> {},
                    grid_sizes |-> << >>, gi |-> 1, success_count |-> 0,
                    out_existed |-> FALSE,
                    attempted |-> << >>, ret |-> "none", exit_code |-> 0]

(* main() is run: optimizer.optimize_puzzle(args.puzzle_id, None); the run *)
(* is the first one, or a later one after the last has ended.              *)
RunOptimizer ==
    /\ puzzle # None
    /\ puzzle.pc \in {"call", "returned", "raised"}
    /\ puzzle.runs < MaxRuns
    /\ EnterOptimizePuzzle

DiscoveryCallGrid == CallGrid(DiscoverySources)

DiscoveryNext ==
    \/ RunOptimizer
    \/ DiscoveryCallGrid
    \/ GridEnter
    \/ GridPiece
    \/ GridNoResults
    \/ GridFinish
    \/ PuzzleGridReturned
    \/ PuzzleGridRaised
    \/ PuzzleReturn

DiscoverySpec == DiscoveryInit /\ [][DiscoveryNext]_vars

----------------------------------------------------------------------------
(* The tools that read the optimized output back:                          *)
(*   run_benchmark / main of benchmark_memory_optimization.py,             *)
(*   analyze_memory_usage of optimize_puzzle_assets.py,                    *)
(*   check_asset_structure / main of verify_asset_loading.py.              *)
(* The files of a grid size as such a tool finds them are a record         *)
(*   pieces_exists, piece_files     <grid>/pieces and its PNG images       *)
(*   out_dir, metadata, out_pieces_dir, out_files                          *)
(*                                  <grid>_optimized/, its                 *)
(*                                  optimization_metadata.json, pieces/    *)
(*                                  and the PNG files in it                *)
(* A PNG file is a record [width, height, st_size]: its pixel dimensions   *)
(* and the size of the encoded file.  Sizes in MB are floats rounded to    *)
(* one decimal; they are kept as integers, in tenths of a MB.              *)

bytes_per_piece == 2048 * 2048 * 4

(* round(num / den) to the nearest integer, ties to the even one *)
round_half_even(num, den) ==
    LET q == num \div den
        r == num % den
    IN  IF 2 * r < den THEN q
        ELSE IF 2 * r > den THEN q + 1
        ELSE IF q % 2 = 0 THEN q ELSE q + 1

(* round(bytes / (1024 * 1024), 1), in tenths of a MB *)
round_mb(bytes) == round_half_even(bytes * 10, 1024 * 1024)

(* a / b as an exact fraction *)
ratio(a, b) ==
    IF b = 0 THEN ZeroDivisionError ELSE [num |-> a, den |-> b]

OriginalPng == [width |-> 400, height |-> 400, st_size |-> 1893]
SmallPng == [width |-> 100, height |-> 90, st_size |-> 412]
LargePng == [width |-> 512, height |-> 512, st_size |-> 262144]

(* optimization_metadata.json: missing, not JSON, a JSON list, or a JSON   *)
(* object whose "statistics" and "pieces" are absent, null or a dict.      *)
EmptyDict == [kind |-> "dict", memory_reduction_percent |-> Absent, len |-> 0]
NumberValue == [kind |-> "number", tenths |-> 944]
StringValue == [kind |-> "string"]
Statistics(reduction) ==
    [kind |-> "dict", memory_reduction_percent |-> reduction, len |-> 1]
Pieces(n) == [kind |-> "dict", memory_reduction_percent |-> Absent, len |-> n]

(* a file that is "missing", "not_json" or a JSON "list" *)
MetadataFile(kind) == [kind |-> kind, statistics |-> Absent, pieces |-> Absent]
MetadataObject(stats, pieces) ==
    [kind |-> "object", statistics |-> stats, pieces |-> pieces]

(* what the optimizer writes for n pieces *)
MetadataOf(n) == MetadataObject(Statistics(NumberValue), Pieces(n))

Output(meta, files) ==
    [out_dir |-> TRUE, metadata |-> meta,
     out_pieces_dir |-> TRUE, out_files |-> files]

OutputStates ==
    {[Output(MetadataFile("missing"), << >>)
          EXCEPT !.out_dir = FALSE, !.out_pieces_dir = FALSE],
     Output(MetadataFile("missing"), <<SmallPng>>),
     Output(MetadataFile("not_json"), <<SmallPng>>),
     Output(MetadataFile("list"), <<LargePng>>),
     Output(MetadataObject(Absent, Absent), <<LargePng>>),
     Output(MetadataObject(None, Pieces(1)), <<LargePng>>),
     Output(MetadataObject(Statistics(NumberValue), None), <<LargePng>>),
     Output(MetadataObject(Statistics(StringValue), Pieces(1)), <<LargePng>>),
     Output(MetadataOf(1), <<SmallPng>>),
     Output(MetadataOf(2), <<LargePng, LargePng>>),
     Output(MetadataOf(1), <<LargePng, LargePng>>),
     [Output(MetadataOf(1), << >>) EXCEPT !.out_pieces_dir = FALSE]}

OriginalStates ==
    {[pieces_exists |-> FALSE, piece_files |-> << >>],
     [pieces_exists |-> TRUE, piece_files |-> << >>],
     [pieces_exists |-> TRUE, piece_files |-> <<OriginalPng, OriginalPng>>]}

BenchDirs ==
    {[pieces_exists |-> o.pieces_exists, piece_files |-> o.piece_files,
      out_dir |-> u.out_dir, metadata |-> u.metadata,
      out_pieces_dir |-> u.out_pieces_dir, out_files |-> u.out_files]
         : o \in OriginalStates, u \in OutputStates}

(* pieces_path.glob("*.png") of the optimized output *)
glob_out_files(d) == IF d.out_pieces_dir THEN d.out_files ELSE << >>

RECURSIVE sum_st_size(_)
sum_st_size(files) ==
    IF files = << >> THEN 0
    ELSE Head(files).st_size + sum_st_size(Tail(files))

(* dict.get(key, default) *)
get(value, default) == IF value = Absent THEN default ELSE value

(* calculate_original_memory_usage *)
calculate_original_memory_usage(d) ==
    IF ~d.pieces_exists
    THEN [error |-> "Pieces directory not found"]
    ELSE LET pieces_count == Len(d.piece_files)
             total_bytes == pieces_count * bytes_per_piece
         IN  [pieces_count |-> pieces_count,
              bytes_per_piece |-> bytes_per_piece,
              total_bytes |-> total_bytes,
              total_mb |-> round_mb(total_bytes)]

(* The exceptions of the try block of calculate_optimized_memory_usage:    *)
(* json.load on a file that is not JSON, metadata.get on a list, stats.get *)
(* on null (line 88), len(pieces) on null (line 96), round() of a string   *)
(* (line 100).                                                             *)
metadata_shape_error(meta) ==
    \/ meta.kind \in {"not_json", "list"}
    \/ get(meta.statistics, EmptyDict) = None
    \/ get(meta.pieces, EmptyDict) = None
    \/ get(meta.statistics, EmptyDict).memory_reduction_percent = StringValue

(* calculate_optimized_memory_usage *)
calculate_optimized_memory_usage(d) ==
    IF d.metadata.kind = "missing"
    THEN [error |-> "Optimization metadata not found"]
    ELSE IF metadata_shape_error(d.metadata)
    THEN [error |-> "Failed to read optimization metadata"]
    ELSE LET stats == get(d.metadata.statistics, EmptyDict)
             pieces == get(d.metadata.pieces, EmptyDict)
             actual_total_bytes == sum_st_size(glob_out_files(d))
         IN  [pieces_count |-> pieces.len,
              actual_total_bytes |-> actual_total_bytes,
              actual_total_mb |-> round_mb(actual_total_bytes),
              theoretical_reduction_percent |->
                  get(stats.memory_reduction_percent, [kind |-> "number", tenths |-> 0]),
              avg_piece_size_bytes |->
                  IF pieces.len > 0
                  THEN round_half_even(actual_total_bytes, pieces.len)
                  ELSE 0]

(* The run of a tool.                                                      *)
(* bench: tool, pc, default (grid_sizes is None), grid_sizes, gi,          *)
(*        seen (the files of the grid sizes looked at so far), results     *)
(*        (results["grid_sizes"] of run_benchmark, or what the other tools *)
(*        reported for each grid size), total_original_mb,                 *)
(*        total_optimized_mb, optimized_grids, summary, base_exists (the   *)
(*        layouts directory exists), all_good, pubspec_ok, raised,         *)
(*        exit_code (meaningful once pc = "exited").                       *)

(* ['8x8', '12x12', '15x15'] *)
DefaultGridSizes == <<GridName(8), GridName(12), GridName(15)>>

EmptySummary == [kind |-> "empty"]

BenchFresh(tool, default, grid_sizes) ==
    [tool |-> tool, pc |-> "start", default |-> default,
     grid_sizes |-> grid_sizes, gi |-> 1, seen |-> << >>, results |-> << >>,
     total_original_mb |-> 0, total_optimized_mb |-> 0, optimized_grids |-> 0,
     summary |-> EmptySummary, base_exists |-> TRUE, all_good |-> TRUE,
     pubspec_ok |-> FALSE, raised |-> None, exit_code |-> 0]

BenchInit ==
    /\ variant = "base"
    /\ PieceIdle
    /\ fs = None
    /\ grid = None
    /\ hist = None
    /\ puzzle = None
    /\ \E tool \in {"benchmark", "analyze", "verify"}, default \in BOOLEAN,
          lists \in GridSizeLists, base_exists \in BOOLEAN :
          /\ default => tool # "analyze"
          /\ tool = "verify" => default
          /\ ~base_exists => tool # "benchmark" /\ (tool = "analyze" => lists = << >>)
          /\ bench = [BenchFresh(tool, default,
                          IF default THEN DefaultGridSizes ELSE lists)
                          EXCEPT !.base_exists = base_exists]

(* run_benchmark, lines 115-127: the default grid sizes and the totals *)
RunBenchmark ==
    /\ bench.tool = "benchmark"
    /\ bench.pc = "start"
    /\ bench' = [bench EXCEPT !.pc = "loop"]
    /\ UNCHANGED <<variant, fs, grid, hist, puzzle>>
    /\ UNCHANGED piecevars

(* lines 144-170: the comparison of one grid size *)
analysis(original, optimized) ==
    IF "error" \notin DOMAIN original /\ "error" \notin DOMAIN optimized
    THEN LET reduction_mb == original.total_mb - optimized.actual_total_mb
             grid_reduction == percent(reduction_mb, original.total_mb)
             compression_ratio == ratio(original.total_mb, optimized.actual_total_mb)
         IN  IF grid_reduction = ZeroDivisionError
                 \/ compression_ratio = ZeroDivisionError
             THEN ZeroDivisionError
             ELSE [status |-> "optimized",
                   memory_saved_mb |-> reduction_mb,
                   reduction_percent |-> grid_reduction,
                   compression_ratio |-> compression_ratio]
    ELSE IF "error" \notin DOMAIN original
    THEN [status |-> "not_optimized",
          potential_savings_mb |-> [num |-> original.total_mb * 7, den |-> 10]]
    ELSE [status |-> "unavailable"]

(* lines 129-172: one iteration of the loop over the grid sizes; an        *)
(* exception of the comparison leaves run_benchmark.                       *)
BenchGrid ==
    /\ bench.tool = "benchmark"
    /\ bench.pc = "loop"
    /\ bench.gi <= Len(bench.grid_sizes)
    /\ \E d \in BenchDirs :
        LET original == calculate_original_memory_usage(d)
            optimized == calculate_optimized_memory_usage(d)
            grid_analysis == analysis(original, optimized)
        IN  IF grid_analysis = ZeroDivisionError
            THEN bench' = [bench EXCEPT !.pc = "raised",
                                        !.raised = ZeroDivisionError,
                                        !.seen = Append(@, d)]
            ELSE bench' = [bench EXCEPT
                     !.gi = @ + 1,
                     !.seen = Append(@, d),
                     !.results = Append(@, [grid_size |-> bench.grid_sizes[bench.gi],
                                            original |-> original,
                                            optimized |-> optimized,
                                            analysis |-> grid_analysis]),
                     !.total_original_mb =
                         IF grid_analysis.status \in {"optimized", "not_optimized"}
                         THEN @ + original.total_mb ELSE @,
                     !.total_optimized_mb =
                         IF grid_analysis.status = "optimized"
                         THEN @ + optimized.actual_total_mb ELSE @,
                     !.optimized_grids =
                         IF grid_analysis.status = "optimized" THEN @ + 1 ELSE @]
    /\ UNCHANGED <<variant, fs, grid, hist, puzzle>>
    /\ UNCHANGED piecevars

(* lines 175-189 *)
summary(b) ==
    LET overall_reduction ==
            percent(b.total_original_mb - b.total_optimized_mb, b.total_original_mb)
        overall_compression == ratio(b.total_original_mb, b.total_optimized_mb)
    IN  IF b.optimized_grids > 0
        THEN IF overall_reduction = ZeroDivisionError
                 \/ overall_compression = ZeroDivisionError
             THEN ZeroDivisionError
             ELSE [kind |-> "summary",
                   total_grids_analyzed |-> Len(b.grid_sizes),
                   optimized_grids |-> b.optimized_grids,
                   total_original_memory_mb |-> b.total_original_mb,
                   total_optimized_memory_mb |-> b.total_optimized_mb,
                   total_memory_saved_mb |->
                       b.total_original_mb - b.total_optimized_mb,
                   overall_reduction_percent |-> overall_reduction,
                   overall_compression_ratio |-> overall_compression,
                   optimization_status |->
                       IF b.optimized_grids < Len(b.grid_sizes)
                       THEN "partial" ELSE "complete"]
        ELSE EmptySummary

(* lines 174-191: the summary and the return of run_benchmark *)
BenchSummary ==
    /\ bench.tool = "benchmark"
    /\ bench.pc = "loop"
    /\ bench.gi > Len(bench.grid_sizes)
    /\ bench' = IF summary(bench) = ZeroDivisionError
                THEN [bench EXCEPT !.pc = "raised", !.raised = ZeroDivisionError]
                ELSE [bench EXCEPT !.pc = "returned", !.summary = summary(bench)]
    /\ UNCHANGED <<variant, fs, grid, hist, puzzle>>
    /\ UNCHANGED piecevars

(* main of benchmark_memory_optimization.py, lines 300-315: the results    *)
(* are printed and the exit code chosen; an exception that left            *)
(* run_benchmark ends the process with exit code 1.                        *)
BenchMain ==
    /\ bench.tool = "benchmark"
    /\ bench.pc \in {"returned", "raised"}
    /\ bench' = [bench EXCEPT
           !.pc = "exited",
           !.exit_code =
               IF bench.pc = "returned" /\ bench.summary # EmptySummary
                      /\ bench.summary.optimized_grids > 0
               THEN 0 ELSE 1]
    /\ UNCHANGED <<variant, fs, grid, hist, puzzle>>
    /\ UNCHANGED piecevars

(* analyze_memory_usage, lines 359-370: the check of the layouts directory *)
(* and the sorted grid sizes.                                              *)
AnalyzeMemoryUsage ==
    /\ bench.tool = "analyze"
    /\ bench.pc = "start"
    /\ bench' = [bench EXCEPT !.pc = IF bench.base_exists THEN "loop" ELSE "returned"]
    /\ UNCHANGED <<variant, fs, grid, hist, puzzle>>
    /\ UNCHANGED piecevars

(* lines 389-405: what analyze_memory_usage prints about the optimization  *)
(* of a grid size; every exception of the try block is caught.             *)
analyze_report(d) ==
    IF ~d.pieces_exists THEN "skipped"
    ELSE IF d.metadata.kind = "missing" THEN "not_optimized"
    ELSE IF \/ d.metadata.kind \in {"not_json", "list"}
            \/ get(d.metadata.statistics, EmptyDict) = None
            \/ get(d.metadata.statistics, EmptyDict).memory_reduction_percent
                   = StringValue
    THEN "error"
    ELSE "optimized"

(* lines 370-405: one iteration of the loop of analyze_memory_usage *)
AnalyzeGrid ==
    /\ bench.tool = "analyze"
    /\ bench.pc = "loop"
    /\ bench.gi <= Len(bench.grid_sizes)
    /\ \E d \in BenchDirs :
          bench' = [bench EXCEPT
              !.gi = @ + 1,
              !.seen = Append(@, d),
              !.results = Append(@, [grid_size |-> bench.grid_sizes[bench.gi],
                                     report |-> analyze_report(d)])]
    /\ UNCHANGED <<variant, fs, grid, hist, puzzle>>
    /\ UNCHANGED piecevars

AnalyzeReturn ==
    /\ bench.tool = "analyze"
    /\ bench.pc = "loop"
    /\ bench.gi > Len(bench.grid_sizes)
    /\ bench' = [bench EXCEPT !.pc = "returned"]
    /\ UNCHANGED <<variant, fs, grid, hist, puzzle>>
    /\ UNCHANGED piecevars

(* check_asset_structure, lines 17-24 *)
CheckAssetStructure ==
    /\ bench.tool = "verify"
    /\ bench.pc = "start"
    /\ bench' = IF bench.base_exists
                THEN [bench EXCEPT !.pc = "loop"]
                ELSE [bench EXCEPT !.pc = "returned", !.all_good = FALSE]
    /\ UNCHANGED <<variant, fs, grid, hist, puzzle>>
    /\ UNCHANGED piecevars

(* lines 45-68: the exceptions of the try block of check_asset_structure:  *)
(* json.load, metadata.get on a list, len() of null, stats.get on null,    *)
(* the format of a string with .1f.                                        *)
verify_metadata_error(meta) ==
    \/ meta.kind \in {"not_json", "list"}
    \/ get(meta.pieces, EmptyDict) = None
    \/ get(meta.statistics, EmptyDict) = None
    \/ get(meta.statistics, EmptyDict).memory_reduction_percent = StringValue

(* lines 29-73: whether the checks of one grid size leave all_good as it   *)
(* is; a number of files that differs from the metadata is only reported.  *)
grid_good(d) ==
    /\ d.pieces_exists
    /\ d.out_dir =>
           /\ d.metadata.kind # "missing"
           /\ ~verify_metadata_error(d.metadata)
           /\ d.out_pieces_dir

(* lines 26-73: one iteration of the loop of check_asset_structure *)
VerifyGrid ==
    /\ bench.tool = "verify"
    /\ bench.pc = "loop"
    /\ bench.gi <= Len(bench.grid_sizes)
    /\ \E d \in BenchDirs :
          bench' = [bench EXCEPT
              !.gi = @ + 1,
              !.seen = Append(@, d),
              !.all_good = @ /\ grid_good(d)]
    /\ UNCHANGED <<variant, fs, grid, hist, puzzle>>
    /\ UNCHANGED piecevars

(* line 75: return all_good *)
VerifyReturn ==
    /\ bench.tool = "verify"
    /\ bench.pc = "loop"
    /\ bench.gi > Len(bench.grid_sizes)
    /\ bench' = [bench EXCEPT !.pc = "returned"]
    /\ UNCHANGED <<variant, fs, grid, hist, puzzle>>
    /\ UNCHANGED piecevars

(* pubspec.yaml: missing, or the set of grid sizes whose optimized asset   *)
(* path its text contains.                                                 *)
PubspecStates ==
    {[exists |-> FALSE, paths |-> {}]}
    \cup {[exists |-> TRUE, paths |-> p] : p \in SUBSET Names(DefaultGridSizes)}

(* check_pubspec_yaml *)
check_pubspec_yaml(pubspec) ==
    /\ pubspec.exists
    /\ \A name \in Names(DefaultGridSizes) : name \in pubspec.paths

(* main of verify_asset_loading.py, lines 132-152 *)
VerifyMain ==
    /\ bench.tool = "verify"
    /\ bench.pc = "returned"
    /\ \E pubspec \in PubspecStates :
        LET assets_ok == bench.all_good
            pubspec_ok == check_pubspec_yaml(pubspec)
        IN  bench' = [bench EXCEPT
                !.pc = "exited",
                !.pubspec_ok = pubspec_ok,
                !.exit_code = IF assets_ok /\ pubspec_ok THEN 0 ELSE 1]
    /\ UNCHANGED <<variant, fs, grid, hist, puzzle>>
    /\ UNCHANGED piecevars

BenchNext ==
    \/ RunBenchmark
    \/ BenchGrid
    \/ BenchSummary
    \/ BenchMain
    \/ AnalyzeMemoryUsage
    \/ AnalyzeGrid
    \/ AnalyzeReturn
    \/ CheckAssetStructure
    \/ VerifyGrid
    \/ VerifyReturn
    \/ VerifyMain

BenchSpec == BenchInit /\ [][BenchNext]_vars

----------------------------------------------------------------------------
(* Properties *)

(* A pixel with non-zero alpha exists *)
HasContent(img) == \E p \in DOMAIN img.px : img.px[p].a # 0

(* The inclusive rectangle of a box handed to Image.crop *)
ExtractedRect == BoundingBox(extracted.box[1], extracted.box[2],
                             extracted.box[3] - 1, extracted.box[4] - 1)

(* The content box found in the source image by the run *)
ContentBoundsOf(v, res) ==
    CASE v = "base" -> res.bounds
      [] v = "fixed" -> res.cropped_info.original_content_bounds
      [] v = "no_padding" -> res.content_bounds

(* The cropped image pasted at <<left, top>> on a fully transparent canvas *)
(* of w x h pixels.                                                        *)
Paste(cropped, left, top, w, h) ==
    [p \in Positions(w, h) |->
        IF <<p[1] - left, p[2] - top>> \in DOMAIN cropped.px
        THEN cropped.px[<<p[1] - left, p[2] - top>>]
        ELSE [c |-> 0, a |-> 0]]

(* C1: in optimize_puzzle_assets.py the bounds.width and bounds.height     *)
(* recorded for a piece equal the pixel width and height of the cropped    *)
(* image saved for it.                                                     *)
C1_BaseBoundsMatchSaved ==
    (pc = "done" /\ variant = "base") =>
        /\ metadata.bounds.width = saved.width
        /\ metadata.bounds.height = saved.height

(* C2: in the fixed and the no_padding script the recorded bounds.width    *)
(* and bounds.height equal the saved cropped image's width and height, and *)
(* right - left + 1 = width, bottom - top + 1 = height.                    *)
C2_FixedBoundsMatchSaved ==
    (pc = "done" /\ variant \in {"fixed", "no_padding"}) =>
        /\ metadata.bounds.width = saved.width
        /\ metadata.bounds.height = saved.height
        /\ metadata.bounds.right - metadata.bounds.left + 1 = metadata.bounds.width
        /\ metadata.bounds.bottom - metadata.bounds.top + 1 = metadata.bounds.height

(* C2 witness: the fixed script recorded a piece whose content touches the *)
(* right edge and lies one pixel from the left edge, so both paddings are  *)
(* clamped.                                                                *)
C2_Witness ==
    /\ pc = "done"
    /\ variant = "fixed"
    /\ image.width = 5
    /\ result.cropped_info.original_content_bounds.left = 1
    /\ result.cropped_info.original_content_bounds.right = 4
    /\ metadata.bounds.left = 0
    /\ metadata.bounds.width = 5

(* C3: in every script the recorded left/top are the left/top of the       *)
(* rectangle extracted from the source image, and the recorded             *)
(* right/bottom its inclusive right/bottom.                                *)
C3_BoundsAreExtractedRect ==
    pc = "done" =>
        /\ metadata.bounds.left = ExtractedRect.left
        /\ metadata.bounds.top = ExtractedRect.top
        /\ metadata.bounds.right = ExtractedRect.right
        /\ metadata.bounds.bottom = ExtractedRect.bottom

(* C4: pasting the saved cropped image at the recorded (left, top) on a    *)
(* transparent canvas reproduces every source pixel of non-zero alpha.     *)
C4_RoundTrip ==
    (pc = "done" /\ HasContent(image)) =>
        LET canvas == Paste(saved, metadata.bounds.left, metadata.bounds.top,
                            image.width, image.height)
        IN  \A p \in DOMAIN image.px :
                image.px[p].a # 0 => canvas[p] = image.px[p]

(* The box is an inclusive rectangle inside the w x h image *)
InImage(b, w, h) ==
    /\ 0 <= b.left /\ b.left <= b.right /\ b.right <= w - 1
    /\ 0 <= b.top /\ b.top <= b.bottom /\ b.bottom <= h - 1

(* Pixel p lies in the inclusive box b *)
InBox(p, b) ==
    /\ b.left <= p[1] /\ p[1] <= b.right
    /\ b.top <= p[2] /\ p[2] <= b.bottom

(* C5: for an image with content, find_content_bounds returns the tightest *)
(* inclusive box: every pixel outside it has alpha 0 and each of its four  *)
(* edges holds a pixel of non-zero alpha.                                  *)
C5_TightestBox ==
    (pc = "bounds" /\ HasContent(image)) =>
        /\ result # None
        /\ \A p \in DOMAIN image.px : ~InBox(p, result) => image.px[p].a = 0
        /\ \E p \in DOMAIN image.px : p[2] = result.top /\ image.px[p].a # 0
        /\ \E p \in DOMAIN image.px : p[2] = result.bottom /\ image.px[p].a # 0
        /\ \E p \in DOMAIN image.px : p[1] = result.left /\ image.px[p].a # 0
        /\ \E p \in DOMAIN image.px : p[1] = result.right /\ image.px[p].a # 0

(* C5 witness: a box returned whose top-left and bottom-right corner       *)
(* pixels are transparent, its edges resting on two other pixels.          *)
C5_Witness ==
    /\ pc = "bounds"
    /\ result # None
    /\ result.left < result.right
    /\ result.top < result.bottom
    /\ image.px[<<result.left, result.top>>].a = 0
    /\ image.px[<<result.right, result.bottom>>].a = 0

(* C6: find_content_bounds returns None exactly when no pixel of the image *)
(* has non-zero alpha.                                                     *)
C6_NoneIffTransparent ==
    pc = "bounds" => ((result = None) <=> ~HasContent(image))

(* C6 witness: None returned for a fully transparent image of more than    *)
(* one pixel whose transparent pixels carry a colour.                      *)
C6_Witness ==
    /\ pc = "bounds"
    /\ result = None
    /\ image.width > 1
    /\ image.height > 1
    /\ \A p \in DOMAIN image.px : image.px[p] = [c |-> 1, a |-> 0]

(* C7: in each script BoundingBox.width = right - left + 1 and             *)
(* BoundingBox.height = bottom - top + 1, and to_dict reports the same.    *)
C7_InclusiveWidthHeight ==
    (pc = "bounds" /\ result # None) =>
        /\ BoxWidth(variant, result) = result.right - result.left + 1
        /\ BoxHeight(variant, result) = result.bottom - result.top + 1
        /\ to_dict(variant, result).width = result.right - result.left + 1
        /\ to_dict(variant, result).height = result.bottom - result.top + 1

(* C8: the box returned by find_content_bounds and the padded crop         *)
(* rectangle computed from it, for any padding, are inclusive rectangles   *)
(* inside the image, and the padded rectangle contains the content box.    *)
C8_RectanglesInImage ==
    /\ (pc = "bounds" /\ result # None) =>
           InImage(result, image.width, image.height)
    /\ pc = "cropped" =>
           /\ InImage(result.bounds, image.width, image.height)
           /\ InImage(ExtractedRect, image.width, image.height)
           /\ ExtractedRect.left <= result.bounds.left
           /\ ExtractedRect.top <= result.bounds.top
           /\ result.bounds.right <= ExtractedRect.right
           /\ result.bounds.bottom <= ExtractedRect.bottom

(* C8 witness: crop_image_to_bounds called with padding 2 on content one   *)
(* pixel from the left edge and touching the right edge: both sides are    *)
(* clamped.                                                                *)
C8_Witness ==
    /\ pc = "cropped"
    /\ variant = "base"
    /\ padding = 2
    /\ result.bounds.left = 1
    /\ result.bounds.right = image.width - 1
    /\ ExtractedRect.left = 0
    /\ ExtractedRect.right = image.width - 1
    /\ ExtractedRect.top = result.bounds.top - 2

(* The padding is not clamped on any side *)
Unclamped(b, pad, w, h) ==
    /\ b.left - pad >= 0 /\ b.top - pad >= 0
    /\ b.right + pad <= w - 1 /\ b.bottom + pad <= h - 1

(* C9: without clamping, crop_image_to_bounds returns an image of width    *)
(* bounds.width + 2*padding and height bounds.height + 2*padding, width    *)
(* and height being those of the BoundingBox of optimize_puzzle_assets.py. *)
C9_CropSizeFromBounds ==
    (/\ pc = "cropped"
     /\ variant = "base"
     /\ Unclamped(result.bounds, padding, image.width, image.height)) =>
        /\ result.cropped_image.width = width_base(result.bounds) + 2 * padding
        /\ result.cropped_image.height = height_base(result.bounds) + 2 * padding

(* C10: the exact-content crop of the no_padding script has size           *)
(* (right-left+1) x (bottom-top+1) and its pixel (x, y) is the source      *)
(* pixel (left+x, top+y).                                                  *)
C10_ExactContentCrop ==
    (pc \in {"cropped", "raised"} /\ variant = "no_padding") =>
        /\ pc = "cropped"
        /\ result.cropped_image.width = result.bounds.right - result.bounds.left + 1
        /\ result.cropped_image.height = result.bounds.bottom - result.bounds.top + 1
        /\ DOMAIN result.cropped_image.px =
               Positions(result.bounds.right - result.bounds.left + 1,
                         result.bounds.bottom - result.bounds.top + 1)
        /\ \A p \in DOMAIN result.cropped_image.px :
               /\ <<result.bounds.left + p[1], result.bounds.top + p[2]>>
                      \in DOMAIN image.px
               /\ result.cropped_image.px[p] =
                      image.px[<<result.bounds.left + p[1], result.bounds.top + p[2]>>]

(* C10 witness: an exact-content crop of a painted rectangle strictly      *)
(* inside the image.                                                       *)
C10_Witness ==
    /\ pc = "cropped"
    /\ variant = "no_padding"
    /\ result.bounds = BoundingBox(1, 1, 3, 2)
    /\ image.width = 5
    /\ image.height = 4
    /\ ImageSize(result.cropped_image) = <<3, 2>>
    /\ \A p \in DOMAIN result.cropped_image.px : result.cropped_image.px[p].a # 0

----------------------------------------------------------------------------
(* Colour values of the image family, and images that differ from img in   *)
(* their colour values only: col gives the new colour of every pixel.      *)
Colours == {0, 1, 2}

Recolour(img, col) ==
    [width |-> img.width, height |-> img.height,
     px |-> [p \in DOMAIN img.px |-> [c |-> col[p], a |-> img.px[p].a]]]

Recolourings(img) ==
    {[p \in DOMAIN img.px |-> (img.px[p].c + 1) % 3],
     [p \in DOMAIN img.px |-> (p[1] + p[2]) % 3]}
    \cup UNION {{[p \in DOMAIN img.px |-> k],
                 [p \in DOMAIN img.px |-> IF img.px[p].a = 0 THEN k ELSE 0]}
                : k \in Colours}

(* C11: find_content_bounds depends on the alpha channel only: an image of *)
(* the same dimensions and the same alpha at every pixel, whatever its     *)
(* colours, gets the same result (the same box, or None for both).         *)
C11_AlphaOnly ==
    pc = "bounds" =>
        \A col \in Recolourings(image) :
            find_content_bounds(Recolour(image, col)) = result

(* C11 witness: a box was returned for an image whose recolouring gives    *)
(* its transparent pixels a colour and its content pixels the colour 0.    *)
C11_Witness ==
    /\ pc = "bounds"
    /\ result # None
    /\ \E p \in DOMAIN image.px : image.px[p].a = 0
    /\ \E col \in Recolourings(image) :
           /\ \A p \in DOMAIN image.px : (image.px[p].a = 0) = (col[p] # 0)
           /\ find_content_bounds(Recolour(image, col)) = result

----------------------------------------------------------------------------
(* Sum of bytes[i] over the piece ids *)
RECURSIVE SumOver(_, _)
SumOver(ids, bytes) ==
    IF ids = {} THEN 0
    ELSE LET i == CHOOSE i \in ids : TRUE
         IN  bytes[i] + SumOver(ids \ {i}, bytes)

ImageBytes(img) == img.width * img.height * 4

(* The run of optimize_grid_size returned True *)
GridSucceeded == grid.pc = "returned" /\ grid.ret = "True"

(* The piece ids the results of the run record *)
Recorded == {grid.results[i].piece_id : i \in 1..Len(grid.results)}

(* C12: after a successful optimize_grid_size the statistics are the exact *)
(* sums over the recorded pieces: total_pieces is their number,            *)
(* original_total_bytes the sum of width*height*4 of their source images,  *)
(* optimized_total_bytes the sum of width*height*4 of the saved cropped    *)
(* images, and bytes_saved the difference of the two.                      *)
C12_StatisticsAreSums ==
    GridSucceeded =>
        LET stats == fs.out_metadata.statistics
            original == SumOver(Recorded,
                            [i \in Recorded |-> ImageBytes(hist.doc_files[i].image)])
            optimized == SumOver(Recorded,
                            [i \in Recorded |-> ImageBytes(fs.out_pieces[i])])
        IN  /\ Recorded = DOMAIN fs.out_metadata.pieces
            /\ Recorded \subseteq DOMAIN fs.out_pieces
            /\ stats.total_pieces = Cardinality(Recorded)
            /\ stats.original_total_bytes = original
            /\ stats.optimized_total_bytes = optimized
            /\ stats.bytes_saved = original - optimized

(* C12 witness: a successful run that recorded two pieces and saved bytes *)
C12_Witness ==
    /\ GridSucceeded
    /\ Cardinality(Recorded) = 2
    /\ fs.out_metadata.statistics.bytes_saved > 0
    /\ fs.out_metadata.statistics.optimized_total_bytes > 0

(* C13: memory_reduction_percent is (bytes_saved / original_total_bytes)   *)
(* * 100, and 0.0 when original_total_bytes is 0; no execution of          *)
(* optimize_piece, optimize_grid_size or _generate_optimization_metadata   *)
(* divides by zero.                                                        *)
C13_NoDivisionByZero ==
    /\ ~grid.div0
    /\ grid.raised # ZeroDivisionError
    /\ fs.out_metadata # None =>
           LET stats == fs.out_metadata.statistics
               pct == stats.memory_reduction_percent
           IN  /\ pct # ZeroDivisionError
               /\ IF stats.original_total_bytes = 0
                  THEN pct = [num |-> 0, den |-> 1]
                  ELSE /\ pct.den # 0
                       /\ pct.num * stats.original_total_bytes
                              = stats.bytes_saved * 100 * pct.den

(* C13 witness: a run that skipped a piece and then wrote a document with  *)
(* a positive memory_reduction_percent.                                    *)
C13_Witness ==
    /\ GridSucceeded
    /\ Len(grid.results) < Len(grid.piece_files)
    /\ fs.out_metadata.statistics.memory_reduction_percent.num > 0

(* The run has ended and the source files are those it read *)
RunEnded == grid.pc \in {"returned", "raised"} /\ ~hist.edited

(* The fully transparent pieces of the source *)
Transparent ==
    {id \in DOMAIN fs.files :
        fs.files[id].kind = "png" /\ ~HasContent(fs.files[id].image)}

(* C14: a fully transparent piece is skipped: no cropped file is written   *)
(* for it, it has no entry in the metadata and adds nothing to the         *)
(* statistics, and a grid whose files are all valid images, however many   *)
(* of them transparent, does not make optimize_grid_size report failure.   *)
C14_TransparentSkipped ==
    (RunEnded /\ hist.runs = 1 /\ Transparent # {}
        /\ \A id \in DOMAIN fs.files :
               fs.files[id].kind = "png" /\ ~fs.files[id].miscrop) =>
        /\ Transparent \cap DOMAIN fs.out_pieces = {}
        /\ Transparent \cap Recorded = {}
        /\ fs.out_metadata # None =>
               /\ Transparent \cap DOMAIN fs.out_metadata.pieces = {}
               /\ fs.out_metadata.statistics.total_pieces
                      = Cardinality(DOMAIN fs.files \ Transparent)
        /\ grid.ret # "False"

(* A piece whose crop had another size than its bounds has been processed *)
MismatchDetected ==
    \E i \in 1..Len(grid.piece_files) :
        /\ i < grid.idx
        /\ fs.files[grid.piece_files[i]].miscrop

BadLayout ==
    \/ fs.layout \in {"missing", "unreadable"}
    \/ /\ grid.layout_read # None
       /\ \/ grid.layout_read.kind # "object"
          \/ "width" \notin DOMAIN grid.layout_read.canvas
          \/ "height" \notin DOMAIN grid.layout_read.canvas

(* C18: with a missing, unreadable or malformed layout.ipuz.json a run     *)
(* that optimized a piece still returns True, with canvas_size             *)
(* {2048, 2048} in the metadata; nothing is raised out of                  *)
(* optimize_grid_size.                                                     *)
C18_LayoutFallback ==
    (grid.pc \in {"returned", "raised"} /\ fs.pieces_exists
        /\ grid.ret # "False" /\ BadLayout) =>
        /\ grid.pc = "returned"
        /\ grid.ret = "True"
        /\ fs.out_metadata # None
        /\ fs.out_metadata.canvas_size = DefaultCanvas
        /\ \A id \in DOMAIN fs.out_metadata.pieces :
               fs.out_metadata.pieces[id].canvas_size = DefaultCanvas

WriteStep ==
    /\ grid.pc = "loop"
    /\ grid.idx > Len(grid.piece_files)
    /\ grid.writes = 0
    /\ grid'.writes = 1
    /\ \A i \in 1..Len(grid.results) :
           /\ grid.results[i].piece_id \in DOMAIN fs.out_pieces
           /\ fs.out_pieces[grid.results[i].piece_id]
                  = CroppedOf(variant, grid.results[i].res)
    /\ DOMAIN fs'.out_metadata.pieces
           = {id \in DOMAIN fs.files : optimize_piece(variant, fs.files[id]) # None}
    /\ \A id \in DOMAIN fs'.out_metadata.pieces :
           /\ id \in DOMAIN fs.files
           /\ optimize_piece(variant, fs.files[id]) # None
           /\ fs'.out_metadata.pieces[id] =
                  pieces_metadata_entry(variant,
                      [piece_id |-> id, res |-> optimize_piece(variant, fs.files[id])],
                      fs'.out_metadata.canvas_size)

(* C20: a run of optimize_grid_size writes optimization_metadata.json at   *)
(* most once, only after every cropped piece file of the run is saved, and *)
(* not at all when it returns False; the write of a later run replaces the *)
(* document by one generated from the current source images alone.         *)
C20_MetadataWrittenOnce ==
    [][/\ grid'.writes <= 1
       /\ fs'.out_metadata # fs.out_metadata => WriteStep
       /\ grid'.writes > grid.writes => WriteStep
       /\ grid'.ret = "False" =>
              grid'.writes = 0 /\ fs'.out_metadata = fs.out_metadata]_vars

(* C20 witness: a second run has replaced the document of the first after  *)
(* the set of pieces changed.                                              *)
C20_Witness ==
    /\ hist.runs = 2
    /\ GridSucceeded
    /\ grid.writes = 1
    /\ hist.prev_doc # None
    /\ DOMAIN hist.prev_doc.pieces # DOMAIN fs.out_metadata.pieces

(* Nothing was added to the output of the grid size being processed *)
NothingWritten ==
    /\ fs.out_dir = puzzle.out_existed
    /\ fs.out_pieces_dir = puzzle.out_existed
    /\ ~fs.out_layout
    /\ fs.out_pieces = << >>
    /\ fs.out_metadata = None

(* C16: optimize_puzzle calls optimize_grid_size for every requested grid  *)
(* size, in order, whatever the earlier calls gave; a grid size without    *)
(* pieces directory fails alone and gets nothing written; and the return   *)
(* value is True exactly when every requested grid size succeeded.         *)
C16_EveryGridAttempted ==
    /\ (fs # None /\ ~fs.pieces_exists) => NothingWritten
    /\ \A i \in 1..Len(puzzle.attempted) :
           /\ i <= Len(puzzle.grid_sizes)
           /\ puzzle.attempted[i].grid_size = puzzle.grid_sizes[i]
           /\ ~puzzle.attempted[i].pieces_exists =>
                  /\ puzzle.attempted[i].outcome = "False"
                  /\ ~puzzle.attempted[i].wrote
    /\ (puzzle.layouts_exists /\ puzzle.pc \in {"returned", "raised"}) =>
           /\ puzzle.pc = "returned"
           /\ Len(puzzle.attempted) = Len(puzzle.grid_sizes)
           /\ (puzzle.ret = "True") =
                  (\A i \in 1..Len(puzzle.attempted) :
                       puzzle.attempted[i].outcome = "True")

(* C17: for a puzzle whose layouts directory does not exist optimize_puzzle *)
(* returns False, with or without a list of grid sizes, without calling    *)
(* optimize_grid_size and without touching a file.                         *)
C17_MissingLayouts ==
    ~puzzle.layouts_exists =>
        /\ puzzle.pc \in {"call", "returned", "exited"}
        /\ puzzle.pc \in {"returned", "exited"} => puzzle.ret = "False"
        /\ puzzle.attempted = << >>
        /\ fs = None
        /\ grid = GridFresh

(* C17 witness: the call with a list of grid sizes has returned False *)
C17_Witness ==
    /\ ~puzzle.layouts_exists
    /\ puzzle.explicit
    /\ Len(puzzle.arg) > 0
    /\ puzzle.pc = "returned"
    /\ puzzle.ret = "False"

(* C24: whenever the last run of optimize_grid_size on a grid size returned *)
(* True, the PNG files in <grid_size>_optimized/pieces are exactly the      *)
(* cropped_filename values of the pieces in optimization_metadata.json: no  *)
(* file of an earlier run remains and no recorded piece lacks its file.     *)
C24_FilesMatchMetadata ==
    GridSucceeded =>
        DOMAIN fs.out_pieces
            = {fs.out_metadata.pieces[id].cropped_filename :
                   id \in DOMAIN fs.out_metadata.pieces}

(* The pieces of the source for which optimize_piece raises inside its try, *)
(* and those it optimizes.                                                  *)
Failing ==
    {id \in DOMAIN fs.files : fs.files[id].kind = "corrupt" \/ fs.files[id].miscrop}

Optimizable ==
    {id \in DOMAIN fs.files :
        /\ fs.files[id].kind = "png"
        /\ ~fs.files[id].miscrop
        /\ HasContent(fs.files[id].image)}

(* C25: when optimize_piece raises for a piece, that piece alone is missing *)
(* from the output files, the metadata and the statistics; every other      *)
(* piece is processed, in sorted file-name order, and optimize_grid_size    *)
(* returns True exactly when at least one piece was optimized.              *)
C25_PieceFailuresIsolated ==
    (RunEnded /\ hist.runs = 1 /\ fs.pieces_exists /\ Failing # {}) =>
        /\ grid.piece_files = sorted(DOMAIN fs.files)
        /\ grid.idx = Len(grid.piece_files) + 1
        /\ Recorded = Optimizable
        /\ \A i, j \in 1..Len(grid.results) :
               i < j => grid.results[i].piece_id < grid.results[j].piece_id
        /\ DOMAIN fs.out_pieces = Optimizable
        /\ fs.out_metadata # None =>
               /\ DOMAIN fs.out_metadata.pieces = Optimizable
               /\ fs.out_metadata.statistics.total_pieces = Cardinality(Optimizable)
        /\ (grid.pc = "returned" /\ grid.ret = "True") = (Optimizable # {})

(* C26: crop_image_to_bounds of optimize_puzzle_assets.py and               *)
(* create_optimized_crop of optimize_puzzle_assets_fixed.py extract the     *)
(* same pixel rectangle for every image, content box and padding, and the   *)
(* inclusive actual_crop_bounds of the fixed script is that rectangle.      *)
C26_CropsEquivalent ==
    (pc = "cropped" /\ variant \in {"base", "fixed"}) =>
        LET base == crop_image_to_bounds(image, result.bounds, padding)
            fixed == create_optimized_crop(image, result.bounds, padding)
            rect == padded_bounds(image, result.bounds, padding)
        IN  /\ crop_box_base(image, result.bounds, padding)
                   = crop_box_fixed(image, result.bounds, padding)
            /\ base = fixed.cropped_image
            /\ fixed.actual_crop_bounds = rect
            /\ variant = "base" =>
                   /\ result.cropped_image = fixed.cropped_image
                   /\ ExtractedRect = fixed.actual_crop_bounds
            /\ variant = "fixed" =>
                   /\ result.cropped_info.cropped_image = base
                   /\ result.cropped_info.actual_crop_bounds = rect
                   /\ ExtractedRect = rect
                   /\ ImageSize(base) = <<rect.right - rect.left + 1,
                                          rect.bottom - rect.top + 1>>
                   /\ \A p \in DOMAIN base.px :
                          base.px[p] = image.px[<<rect.left + p[1], rect.top + p[2]>>]

(* C26 witness: create_optimized_crop called with padding 2 on content one  *)
(* pixel from the left edge and touching the right edge gives the whole     *)
(* width of the image, as crop_image_to_bounds does.                        *)
C26_Witness ==
    /\ pc = "cropped"
    /\ variant = "fixed"
    /\ padding = 2
    /\ result.bounds.left = 1
    /\ result.bounds.right = image.width - 1
    /\ result.bounds.bottom + 2 < image.height
    /\ result.cropped_info.actual_crop_bounds.left = 0
    /\ result.cropped_info.actual_crop_bounds.right = image.width - 1
    /\ result.cropped_info.cropped_image
           = crop_image_to_bounds(image, result.bounds, 2)

(* The directories of the layouts directory that are not the output of an   *)
(* optimization.                                                            *)
SourceNames ==
    {e.name : e \in {d \in puzzle.entries : d.is_dir /\ d.name.opt = 0}}

(* C29: with grid_sizes None optimize_puzzle never takes a directory whose  *)
(* name ends in _optimized as a source: every run works on the same set of  *)
(* grid sizes, the source directories, no <grid>_optimized_optimized        *)
(* directory is ever created and optimize_grid_size is never called on the  *)
(* output of an optimization.                                               *)
C29_NeverOwnOutput ==
    /\ \A e \in puzzle.entries : e.name.opt <= 1
    /\ \A i \in 1..Len(puzzle.grid_sizes) :
           /\ puzzle.grid_sizes[i].opt = 0
           /\ Dir(puzzle.grid_sizes[i]) \in puzzle.entries
    /\ \A i \in 1..Len(puzzle.attempted) : puzzle.attempted[i].grid_size.opt = 0
    /\ puzzle.runs >= 1 =>
           /\ Names(puzzle.grid_sizes) = puzzle.first
           /\ puzzle.first = SourceNames
           /\ Len(puzzle.grid_sizes) = Cardinality(SourceNames)

(* C29 witness: a second run that found a file and the output directories   *)
(* of the first run next to the two grid sizes is working on the second     *)
(* grid size, whose output the first run created.                           *)
C29_Witness ==
    /\ puzzle.runs = 2
    /\ puzzle.pc = "in_grid"
    /\ puzzle.grid_sizes[puzzle.gi] = GridName(2)
    /\ puzzle.out_existed
    /\ StrayFile \in puzzle.entries
    /\ Dir(optimized_name(GridName(1))) \in puzzle.entries
    /\ Cardinality(puzzle.first) = 2

(* width * height * 4 summed over PNG files *)
RECURSIVE PixelBytes(_)
PixelBytes(files) ==
    IF files = << >> THEN 0
    ELSE Head(files).width * Head(files).height * 4 + PixelBytes(Tail(files))

(* C21: the benchmark computes the original size of a grid size from the    *)
(* pixel dimensions of its original pieces (width*height*4 each) and the    *)
(* optimized size from the pixel dimensions of the cropped files found on   *)
(* disk, not from assumed constants, metadata values or encoded file sizes. *)
C21_SizesFromPixels ==
    bench.tool = "benchmark" =>
        \A i \in 1..Len(bench.results) :
            LET d == bench.seen[i]
                r == bench.results[i]
            IN  /\ "error" \notin DOMAIN r.original =>
                       r.original.total_bytes = PixelBytes(d.piece_files)
                /\ "error" \notin DOMAIN r.optimized =>
                       r.optimized.actual_total_bytes = PixelBytes(glob_out_files(d))

AnalysisStatuses == {"optimized", "not_optimized", "unavailable"}

(* C27: run_benchmark is total: whatever the original directories and the   *)
(* optimized outputs of the requested grid sizes hold, it returns without   *)
(* raising, and it has then recorded for every requested grid size an       *)
(* analysis whose status is optimized, not_optimized or unavailable.        *)
C27_RunBenchmarkTotal ==
    bench.tool = "benchmark" =>
        /\ bench.raised = None
        /\ bench.pc \in {"returned", "exited"} =>
               /\ Len(bench.results) = Len(bench.grid_sizes)
               /\ \A i \in 1..Len(bench.results) :
                      /\ bench.results[i].grid_size = bench.grid_sizes[i]
                      /\ bench.results[i].analysis.status \in AnalysisStatuses

(* the original total_mb of the results whose status is "optimized" *)
RECURSIVE SumOriginalOfOptimized(_)
SumOriginalOfOptimized(results) ==
    IF results = << >> THEN 0
    ELSE (IF Head(results).analysis.status = "optimized"
          THEN Head(results).original.total_mb ELSE 0)
         + SumOriginalOfOptimized(Tail(results))

(* C28: in the summary of run_benchmark the original total is taken over    *)
(* the same grid sizes as the optimized total: total_original_memory_mb is  *)
(* the sum of the original total_mb of exactly the grids counted in         *)
(* optimized_grids.                                                         *)
C28_TotalsOverSameGrids ==
    (bench.tool = "benchmark" /\ bench.summary # EmptySummary) =>
        bench.summary.total_original_memory_mb
            = SumOriginalOfOptimized(bench.results)

(* optimization_metadata.json is a JSON object whose "statistics" and      *)
(* "pieces" are dicts and whose memory_reduction_percent is a number, as   *)
(* the optimizer writes it                                                  *)
ExpectedShape(meta) ==
    /\ meta.kind = "object"
    /\ meta.statistics \notin {Absent, None}
    /\ meta.pieces \notin {Absent, None}
    /\ meta.statistics.memory_reduction_percent = NumberValue

(* C22: when the metadata file of a grid size whose original pieces exist   *)
(* is missing or corrupt (not parseable, or parseable but not of the        *)
(* expected shape), the benchmark and analyze_memory_usage do not raise on  *)
(* it and go on to the next grid size; the benchmark gives the grid the     *)
(* status not_optimized and does not count it in optimized_grids, and       *)
(* analyze_memory_usage reports no optimization figures for it.             *)
C22_BadMetadataNotOptimized ==
    bench.tool \in {"benchmark", "analyze"} =>
        \A i \in 1..Len(bench.seen) :
            (bench.seen[i].pieces_exists /\ ~ExpectedShape(bench.seen[i].metadata)) =>
                /\ i <= Len(bench.results)
                /\ bench.tool = "benchmark" =>
                       bench.results[i].analysis.status = "not_optimized"
                /\ bench.tool = "analyze" =>
                       bench.results[i].report \in {"not_optimized", "error"}

(* the checks the claim asks of one grid size *)
GridStructureGood(d) ==
    /\ d.pieces_exists
    /\ d.out_dir =>
           /\ d.metadata.kind # "missing"
           /\ ~verify_metadata_error(d.metadata)
           /\ d.out_pieces_dir
           /\ Len(glob_out_files(d)) = get(d.metadata.pieces, EmptyDict).len

(* C30: check_asset_structure returns True only if the layouts directory    *)
(* exists and, for each checked grid size, the original pieces directory    *)
(* exists and an existing optimized directory has readable metadata, a      *)
(* pieces directory and as many PNG files as the metadata records pieces;   *)
(* main returns 0 if and only if both checks returned True.                 *)
C30_VerifyStructure ==
    bench.tool = "verify" =>
        /\ (bench.pc \in {"returned", "exited"} /\ bench.all_good) =>
               /\ bench.base_exists
               /\ Len(bench.seen) = Len(DefaultGridSizes)
               /\ \A i \in 1..Len(bench.seen) : GridStructureGood(bench.seen[i])
        /\ bench.pc = "exited" =>
               (bench.exit_code = 0 <=> (bench.all_good /\ bench.pubspec_ok))

(* a grid size has optimized output: its output directory holds metadata    *)
(* of the shape the optimizer writes, and the pieces directory              *)
HasOptimizedOutput(d) ==
    /\ d.out_dir
    /\ ExpectedShape(d.metadata)
    /\ d.out_pieces_dir

(* C23: the exit code is 0 exactly when the run succeeded: the optimizer    *)
(* exits 0 if and only if optimize_puzzle returned True, and 1 otherwise;   *)
(* the benchmark exits 0 when a requested grid size has optimized output    *)
(* and 1 when none has.                                                     *)
C23_ExitCodes ==
    /\ (puzzle # None /\ puzzle.pc = "exited") =>
           (puzzle.exit_code = 0 <=> puzzle.ret = "True")
    /\ (bench # None /\ bench.tool = "benchmark" /\ bench.pc = "exited") =>
           /\ (\E i \in 1..Len(bench.seen) : HasOptimizedOutput(bench.seen[i])) =>
                  bench.exit_code = 0
           /\ (/\ bench.raised = None
               /\ \A i \in 1..Len(bench.seen) : ~HasOptimizedOutput(bench.seen[i])) =>
                  bench.exit_code = 1

====
